---------------------------- MODULE Spec2Model ----------------------------
(***************************************************************************)
(* Bill review pipeline (chrscato/BillReview_system).                      *)
(*                                                                         *)
(*   Spec       BillReviewApplication.run / process_file: a batch of HCFA  *)
(*              files is pushed, one file at a time, through the modifier, *)
(*              units, bundle, line-item and rate stages; every file ends  *)
(*              in one ValidationResult appended to the logger.            *)
(*   SpecMatch  LineItemValidator.validate applied to bounded claim lines, *)
(*              order rows and dim_proc contents.                          *)
(*   SpecRate   RateValidator.validate on bounded lines and rate tables.   *)
(*   SpecUnits  UnitsValidator.validate on bounded lines and categories.   *)
(*   SpecMod    ModifierValidator.validate on bounded lines.               *)
(*   SpecBatch  run() over three files, the first and last the same claim. *)
(*   SpecNorm   normalize_hcfa_format followed by RateValidator.validate.  *)
(*   SpecPerm   RateValidator.validate on a list and on a permutation.     *)
(*   SpecLog    JSONValidationLogger.log_validation and save.              *)
(*                                                                         *)
(* Python values are modelled as follows: a dict is a function on strings  *)
(* (a record), a list is a sequence, a set is a set, None is NoneVal, a    *)
(* string that the code inspects character by character (a modifier, a     *)
(* TIN) is a sequence of one-character strings, and an f-string message is *)
(* the tuple of its template tag and its arguments.                        *)
(***************************************************************************)
EXTENDS Integers, Sequences, FiniteSets, TLC

VARIABLES
    pc,                 \* position of run()/process_file()
    idx,                \* number of files run() has handed to process_file
    hcfa_data,          \* normalize_hcfa_format(json.load(f)) of the current file
    base_result,        \* process_file's base_result dict
    modifier_result,    \* process_file locals (NoneVal until assigned)
    units_result,
    line_items_result,
    rate_result,
    calls,              \* stages entered for the current file, in call order
    raised,             \* the exception raised while processing the current file
    results,            \* JSONValidationLogger.results
    conn,               \* the reference database behind validators['conn']
    dim_proc,           \* dim_proc_df held by the validators: proc_cd -> proc_category
    m_hcfa_lines,       \* arguments and result of a validator called on its own
    m_order_lines,
    m_result,
    files,              \* the claim files in JSON_PATH, in the order run() takes them
    saved               \* what JSONValidationLogger.save has written

vars == <<pc, idx, hcfa_data, base_result, modifier_result, units_result,
          line_items_result, rate_result, calls, raised, results, conn,
          dim_proc, m_hcfa_lines, m_order_lines, m_result, files, saved>>

-----------------------------------------------------------------------------
(* Bounds of the model.                                                    *)

NumFiles == 2          \* files found by run() in JSON_PATH
MaxLines == 2          \* service lines of one claim
MaxOrderLines == 2     \* line_items rows of one order
FloatBits == 10        \* bits of a float's significand (53 in Python)
MaxLogged == 3         \* verdicts handed to the logger before save

-----------------------------------------------------------------------------
(* Python values.                                                          *)

NoneVal == "<None>"
NoRow == "<no row>"

\* bool(x) is False for None and for the empty string
Falsy(x) == x \in {NoneVal, ""}

\* `x or default`
OrElse(x, default) == IF Falsy(x) THEN default ELSE x

\* str.strip() on the strings of the model
Strip(s) == IF s \in {"", " ", "  "} THEN "" ELSE s

\* str.lower() on the strings of the model
Lower(s) ==
    CASE s = "Ancillary" -> "ancillary"
      [] s = "EMG" -> "emg"
      [] s = "MRI" -> "mri"
      [] s = "E&M" -> "e&m"
      [] OTHER -> s

\* str.upper() on the strings of the model
Upper(s) ==
    CASE s = "Ancillary" -> "ANCILLARY"
      [] s = "ancillary" -> "ANCILLARY"
      [] s = "emg" -> "EMG"
      [] s = "e&m" -> "E&M"
      [] s = "mri" -> "MRI"
      [] OTHER -> s

Range(s) == {s[i] : i \in 1..Len(s)}

\* all sequences over S of length at most n
SeqsUpTo(S, n) == UNION {[1..k -> S] : k \in 0..n}

\* the elements of s in order of first appearance (the key order of a dict
\* filled by iterating s)
RECURSIVE Distinct(_)
Distinct(s) ==
    IF s = <<>> THEN <<>>
    ELSE LET front == Distinct(SubSeq(s, 1, Len(s) - 1))
             last == s[Len(s)]
         IN IF last \in Range(front) THEN front ELSE Append(front, last)

-----------------------------------------------------------------------------
(* core/validators/line_items.py                                           *)

\* LineItemValidator.__init__
emg_study_codes == {"95907", "95908", "95909", "95910", "95911", "95912", "95913"}
emg_needle_codes == {"95885", "95886", "95887"}

\* the codes validate() drops from the claim
UnacceptableCpts == {"51655"}

\* LineItemValidator.get_proc_category: None when dim_proc has no row for the
\* code, otherwise the stored category, valid or not
get_proc_category(dim, cpt) ==
    IF cpt \notin DOMAIN dim \/ dim[cpt] = NoRow THEN NoneVal ELSE dim[cpt]

\* mutant: a claim with EMG codes of one family is accepted without looking
\* at the order
check_for_emg_package_AnyEmg(hcfa_codes, order_codes) ==
    LET hcfa_study_codes == hcfa_codes \cap emg_study_codes
        hcfa_needle_codes == hcfa_codes \cap emg_needle_codes
    IN [is_emg_package |-> hcfa_study_codes # {} \/ hcfa_needle_codes # {},
        hcfa_study_codes |-> hcfa_study_codes,
        hcfa_needle_codes |-> hcfa_needle_codes,
        order_study_codes |-> order_codes \cap emg_study_codes,
        order_needle_codes |-> order_codes \cap emg_needle_codes,
        message |-> <<>>]

\* LineItemValidator.check_for_emg_package
check_for_emg_package(hcfa_codes, order_codes) ==
    LET hcfa_study_codes == hcfa_codes \cap emg_study_codes
        hcfa_needle_codes == hcfa_codes \cap emg_needle_codes
        order_study_codes == order_codes \cap emg_study_codes
        order_needle_codes == order_codes \cap emg_needle_codes
        case1 == hcfa_study_codes # {} /\ hcfa_needle_codes # {}
        case2 == ~case1 /\ hcfa_needle_codes # {} /\ hcfa_study_codes = {}
        case3 == ~case1 /\ ~case2 /\ hcfa_study_codes # {} /\ hcfa_needle_codes = {}
        suffix ==
            IF order_study_codes = {} /\ order_needle_codes # {}
                THEN "Order is missing study codes"
            ELSE IF order_study_codes # {} /\ order_needle_codes = {}
                THEN "Order is missing needle codes"
            ELSE IF order_study_codes # hcfa_study_codes
                THEN "Study code mismatch (expected variation)"
            ELSE ""
        is_emg_package ==
            \/ case1
            \/ case2 /\ order_needle_codes # {}
            \/ case3 /\ order_study_codes # {}
        message ==
            IF case1 THEN
                <<"EMG package with study and needle", hcfa_study_codes,
                  hcfa_needle_codes, suffix>>
            ELSE IF case2 /\ order_needle_codes # {} THEN
                <<"EMG needle codes only", hcfa_needle_codes>>
            ELSE IF case3 /\ order_study_codes # {} THEN
                <<"EMG study codes only", hcfa_study_codes>>
            ELSE <<>>
    IN [is_emg_package |-> is_emg_package,
        hcfa_study_codes |-> hcfa_study_codes,
        hcfa_needle_codes |-> hcfa_needle_codes,
        order_study_codes |-> order_study_codes,
        order_needle_codes |-> order_needle_codes,
        message |-> message]

\* mutant: the category "0" is not treated as invalid
InvalidCategory_ZeroAllowed(cat) == Falsy(cat) \/ Strip(cat) = ""

\* the test validate() applies to a looked-up category in STEP 4
InvalidCategory(cat) == Falsy(cat) \/ cat = "0" \/ Strip(cat) = ""

\* the per-code category dicts validate() builds: code -> (category or "unknown")
CategoriesOf(dim, codes) ==
    [c \in codes |-> OrElse(get_proc_category(dim, c), "unknown")]

\* validate() STEP 4: the invalid_categories entries appended while iterating
\* the rows of one side, one entry per row whose category is invalid
InvalidEntries(dim, cpts, source) ==
    LET bad == SelectSeq(cpts, LAMBDA c : InvalidCategory(get_proc_category(dim, c)))
    IN [i \in 1..Len(bad) |->
            [cpt |-> bad[i], source |-> source,
             category |-> get_proc_category(dim, bad[i]),
             reason |-> "Missing or invalid category"]]

\* mutant: the ancillary codes are counted like any other code
CategoryCounts_KeepAncillary(categories, excluded) ==
    LET kept == DOMAIN categories
    IN [cat \in {categories[c] : c \in kept} |->
            Cardinality({c \in kept : categories[c] = cat})]

\* validate() STEP 6: category -> number of dict entries of `categories` with
\* that category, over the codes outside `excluded`
CategoryCounts(categories, excluded) ==
    LET kept == DOMAIN categories \ excluded
    IN [cat \in {categories[c] : c \in kept} |->
            Cardinality({c \in kept : categories[c] = cat})]

\* mutant: the list of claim codes is compared with the set of order codes,
\* which are never equal
ExactMatch_ListVsSet(hcfa_codes, order_codes) == FALSE

\* validate() STEP 2: `hcfa_codes == order_codes` on the two sets
ExactMatch(hcfa_codes, order_codes) == hcfa_codes = order_codes

\* LineItemValidator.validate
LineItemValidator_validate(dim, hcfa_lines, order_lines) ==
    LET filtered_hcfa_lines ==
            SelectSeq(hcfa_lines, LAMBDA line : line.cpt \notin UnacceptableCpts)
        hcfa_cpts == [i \in 1..Len(filtered_hcfa_lines) |-> filtered_hcfa_lines[i].cpt]
        order_cpts == [i \in 1..Len(order_lines) |-> order_lines[i].CPT]
        hcfa_codes == Range(hcfa_cpts)
        order_codes == Range(order_cpts)
        emg_info == check_for_emg_package(hcfa_codes, order_codes)
        hcfa_categories == CategoriesOf(dim, hcfa_codes)
        order_categories == CategoriesOf(dim, order_codes)
        comparison_details ==
            [hcfa_codes |-> hcfa_codes, order_codes |-> order_codes,
             hcfa_categories |-> hcfa_categories,
             order_categories |-> order_categories]
        \* STEP 3
        mapped == {c \in hcfa_codes : c \in order_codes}
        line_item_mapping ==
            [c \in mapped |->
                LET rows == SelectSeq(order_lines, LAMBDA r : r.CPT = c)
                IN [i \in 1..Len(rows) |-> rows[i].id]]
        \* STEP 4
        invalid_categories ==
            InvalidEntries(dim, hcfa_cpts, "hcfa") \o InvalidEntries(dim, order_cpts, "order")
        ancillary_codes ==
            {c \in hcfa_codes :
                LET cat == get_proc_category(dim, c)
                IN ~Falsy(cat) /\ Lower(cat) = "ancillary"}
        \* STEP 6
        hcfa_category_counts == CategoryCounts(hcfa_categories, ancillary_codes)
        order_category_counts == CategoryCounts(order_categories, ancillary_codes)
        OrderCount(cat) ==
            IF cat \in DOMAIN order_category_counts THEN order_category_counts[cat] ELSE 0
        \* categories in the key order of hcfa_category_counts
        count_keys ==
            Distinct(SelectSeq(
                [i \in 1..Len(Distinct(hcfa_cpts)) |-> hcfa_categories[Distinct(hcfa_cpts)[i]]],
                LAMBDA cat : cat \in DOMAIN hcfa_category_counts))
        short_keys ==
            SelectSeq(count_keys, LAMBDA cat :
                /\ OrderCount(cat) < hcfa_category_counts[cat]
                /\ Upper(cat) # "EMG")
        category_mismatches ==
            [i \in 1..Len(short_keys) |->
                LET cat == short_keys[i]
                IN [category |-> cat,
                    hcfa_count |-> hcfa_category_counts[cat],
                    order_count |-> OrderCount(cat),
                    difference |-> hcfa_category_counts[cat] - OrderCount(cat),
                    hcfa_cpts |-> {c \in hcfa_codes : hcfa_categories[c] = cat},
                    order_cpts |-> {c \in order_codes : order_categories[c] = cat}]]
    IN  IF emg_info.is_emg_package THEN
            [status |-> "PASS",
             match_type |-> "emg_package_match",
             codes |-> hcfa_codes,
             message |-> <<"EMG package detected", emg_info.message>>,
             comparison_details |->
                [hcfa_codes |-> hcfa_codes, order_codes |-> order_codes,
                 hcfa_categories |-> hcfa_categories,
                 order_categories |-> order_categories,
                 emg_info |-> emg_info]]
        ELSE IF ExactMatch(hcfa_codes, order_codes) THEN
            [status |-> "PASS",
             match_type |-> "exact_match",
             codes |-> hcfa_codes,
             message |-> <<"Exact match found.">>]
        ELSE IF invalid_categories # <<>> THEN
            [status |-> "FAIL",
             reason |-> "Missing or invalid procedure categories",
             invalid_categories |-> invalid_categories,
             comparison_details |-> comparison_details,
             message |-> <<"Found CPT codes with missing or invalid categories",
                           Len(invalid_categories)>>]
        ELSE IF category_mismatches # <<>> THEN
            [status |-> "FAIL",
             reason |-> "Category count mismatch",
             mismatches |-> category_mismatches,
             comparison_details |-> comparison_details,
             message |-> <<"Found category mismatches between HCFA and order data.",
                           Len(category_mismatches)>>]
        ELSE
            [status |-> "PASS",
             match_type |-> "category_match",
             categories |-> {hcfa_categories[c] : c \in hcfa_codes \ ancillary_codes},
             line_item_mapping |-> line_item_mapping,
             comparison_details |-> comparison_details]

-----------------------------------------------------------------------------
(* utils/helpers.py                                                        *)

\* int(float(value)) for the unit texts of the model; a JSON number is
\* modelled by its text
IntOfText ==
    [t \in {"0", "1", "2", "3", "4", "5", "2.5"} |->
        CASE t = "0" -> 0 [] t = "1" -> 1 [] t = "2" -> 2 [] t = "3" -> 3
          [] t = "4" -> 4 [] t = "5" -> 5 [] t = "2.5" -> 2]

\* safe_int: the integer value, or the default when the conversion raises
safe_int(value, default) ==
    IF value \in DOMAIN IntOfText THEN IntOfText[value] ELSE default

Digits == {"0", "1", "2", "3", "4", "5", "6", "7", "8", "9"}

\* str.strip() of a character sequence
RECURSIVE StripChars(_)
StripChars(s) ==
    IF s = <<>> THEN s
    ELSE IF Head(s) = " " THEN StripChars(Tail(s))
    ELSE IF s[Len(s)] = " " THEN StripChars(SubSeq(s, 1, Len(s) - 1))
    ELSE s

\* mutant: the cleaned id is returned whatever its length
clean_tin_AnyLength(tin) ==
    IF tin = <<>> THEN NoneVal
    ELSE StripChars(SelectSeq(tin, LAMBDA ch : ch # "-"))

\* clean_tin: dashes removed, stripped; None unless nine digits remain
clean_tin(tin) ==
    IF tin = <<>> THEN NoneVal
    ELSE LET cleaned == StripChars(SelectSeq(tin, LAMBDA ch : ch # "-"))
         IN IF Len(cleaned) = 9 /\ \A i \in 1..Len(cleaned) : cleaned[i] \in Digits
            THEN cleaned ELSE NoneVal

-----------------------------------------------------------------------------
(* core/validators/modifiers.py, config/settings.py                        *)

\* Settings.INVALID_MODIFIERS
INVALID_MODIFIERS == {<<"2", "6">>, <<"T", "C">>}

UpperChar(ch) == CASE ch = "t" -> "T" [] ch = "c" -> "C" [] ch = "l" -> "L" [] OTHER -> ch

\* str.upper() of a character sequence
UpperChars(s) == [i \in 1..Len(s) |-> UpperChar(s[i])]

\* `sub in s` for character sequences
Contains(sub, s) ==
    \E i \in 1..(Len(s) - Len(sub) + 1) : SubSeq(s, i, i + Len(sub) - 1) = sub

\* mutant: the modifier is compared as written, without upper()
HasInvalidModifier_CaseSensitive(line) ==
    /\ "modifier" \in DOMAIN line
    /\ line.modifier # <<>>
    /\ \E inv_mod \in INVALID_MODIFIERS : Contains(inv_mod, line.modifier)

\* the test of ModifierValidator.validate on one line; a line without
\* modifier (None) carries <<>>
HasInvalidModifier(line) ==
    /\ "modifier" \in DOMAIN line
    /\ line.modifier # <<>>
    /\ \E inv_mod \in INVALID_MODIFIERS : Contains(inv_mod, UpperChars(line.modifier))

\* ModifierValidator.validate
ModifierValidator_validate(data) ==
    LET bad == SelectSeq(data.line_items, HasInvalidModifier)
        invalid_modifiers ==
            [i \in 1..Len(bad) |-> [cpt |-> bad[i].cpt, modifier |-> bad[i].modifier]]
    IN [status |-> IF invalid_modifiers # <<>> THEN "FAIL" ELSE "PASS",
        invalid_modifiers |-> invalid_modifiers,
        details |-> [total_checked |-> Len(data.line_items),
                     total_invalid |-> Len(invalid_modifiers)]]

-----------------------------------------------------------------------------
(* config/emg_config.py, core/validators/units.py                          *)

\* EMG_CONFIGURATIONS["BUNDLES"], in the order of the dict
emg_bundles ==
    << [name |-> "EMG Visit", codes |-> <<"95910", "95886">>],
       [name |-> "EMG Visit - 2", codes |-> <<"95910", "95885">>],
       [name |-> "EMG Visit - 3", codes |-> <<"95913", "95886">>],
       [name |-> "EMG Visit - 4", codes |-> <<"95913", "95885">>],
       [name |-> "EMG Visit - 5", codes |-> <<"95910", "99203", "95885">>],
       [name |-> "EMG Visit - 6", codes |-> <<"95910", "99203", "95886">>],
       [name |-> "EMG Visit - 7", codes |-> <<"95909", "95885">>] >>

\* EMG_CONFIGURATIONS["ALLOWED_UNITS"]
emg_allowed_units ==
    [c \in {"95907", "95908", "95909", "95910", "95911", "95912", "95913",
            "95885", "95886", "95887", "99203"} |->
        IF c \in {"95885", "95886"} THEN 4 ELSE 1]

\* UnitsValidator.MULTI_UNIT_EXEMPT_CODES
MULTI_UNIT_EXEMPT_CODES ==
    {"95910", "95911", "95912", "95913",
     "97110", "97112", "97116", "97140", "97530",
     "76140", "96372", "96373", "96374"}

\* UnitsValidator.is_emg_code
is_emg_code(cpt) == cpt \in DOMAIN emg_allowed_units

\* mutant: every EMG code is held to one unit
get_emg_allowed_units_AlwaysOne(cpt) == 1

\* UnitsValidator.get_emg_allowed_units
get_emg_allowed_units(cpt) == IF cpt \in DOMAIN emg_allowed_units THEN emg_allowed_units[cpt] ELSE 1

\* UnitsValidator.detect_emg_bundle
detect_emg_bundle(line_items) ==
    LET cpt_codes == {line_items[i].cpt : i \in 1..Len(line_items)}
        complete == {k \in 1..Len(emg_bundles) : Range(emg_bundles[k].codes) \subseteq cpt_codes}
        first == CHOOSE k \in complete : \A j \in complete : k <= j
        emg_codes == {c \in cpt_codes : is_emg_code(c)}
    IN IF complete # {} THEN
            [found |-> TRUE, name |-> emg_bundles[first].name,
             codes |-> Range(emg_bundles[first].codes)]
       ELSE IF emg_codes # {} THEN
            [found |-> FALSE, name |-> NoneVal, codes |-> emg_codes,
             message |-> "Contains EMG codes but not a recognized bundle"]
       ELSE [found |-> FALSE, name |-> NoneVal, codes |-> {}]

\* UnitsValidator.validate, the loop body: the entry appended to
\* invalid_units for one line, or <<>> when the line is in order
UnitIssue(dim, line) ==
    LET units == safe_int(line.units, 0)
        cpt == line.cpt
        proc_category == get_proc_category(dim, cpt)
        is_ancillary == ~Falsy(proc_category) /\ Lower(proc_category) = "ancillary"
        is_exempt == cpt \in MULTI_UNIT_EXEMPT_CODES
    IN IF is_emg_code(cpt) THEN
            IF units > get_emg_allowed_units(cpt) THEN
                << [cpt |-> cpt, units |-> units, is_ancillary |-> FALSE,
                    proc_category |-> proc_category,
                    allowed_units |-> get_emg_allowed_units(cpt), type |-> "emg"] >>
            ELSE <<>>
       ELSE IF units > 1 /\ ~is_ancillary /\ ~is_exempt THEN
            << [cpt |-> cpt, units |-> units, is_ancillary |-> is_ancillary,
                proc_category |-> proc_category, type |-> "standard"] >>
       ELSE <<>>

\* concatenation of the per-line entries, in line order
RECURSIVE UnitIssues(_, _)
UnitIssues(dim, lines) ==
    IF lines = <<>> THEN <<>>
    ELSE UnitIssue(dim, Head(lines)) \o UnitIssues(dim, Tail(lines))

\* UnitsValidator.validate
UnitsValidator_validate(dim, data) ==
    LET line_items == data.line_items
        emg_bundle == detect_emg_bundle(line_items)
        invalid_units == UnitIssues(dim, line_items)
        non_ancillary_overages == SelectSeq(invalid_units, LAMBDA u : u.type = "standard")
        emg_violations == SelectSeq(invalid_units, LAMBDA u : u.type = "emg")
        messages ==
            (IF non_ancillary_overages # <<>>
                THEN << <<"Non-ancillary CPT codes with units > 1 found", Len(non_ancillary_overages)>> >>
                ELSE <<>>)
            \o (IF emg_violations # <<>>
                THEN << <<"EMG codes with units exceeding limits found", Len(emg_violations)>> >>
                ELSE <<>>)
            \o (IF emg_bundle.found
                THEN << <<"Valid EMG bundle detected", emg_bundle.name>> >>
                ELSE IF emg_bundle.codes # {}
                THEN << <<"Partial EMG codes detected but not a valid bundle">> >>
                ELSE <<>>)
            \o (IF invalid_units = <<>> THEN << <<"No unit violations found">> >> ELSE <<>>)
    IN [status |-> IF invalid_units # <<>> THEN "FAIL" ELSE "PASS",
        details |-> [all_unit_issues |-> invalid_units,
                     non_ancillary_violations |-> non_ancillary_overages,
                     emg_violations |-> emg_violations,
                     total_violations |-> Len(invalid_units),
                     emg_bundle |-> IF emg_bundle.codes # {} THEN emg_bundle ELSE NoneVal],
        messages |-> messages]

-----------------------------------------------------------------------------
(* core/services/database.py                                               *)
(* A database is a record of tables: orders, providers, line_items, ppo    *)
(* and current_otas are sequences of rows, dim_proc maps proc_cd to        *)
(* proc_category (NoRow: no row, NoneVal: NULL).                           *)

RowsWhere(table, P(_)) == SelectSeq(table, P)

\* DatabaseService.get_line_items
get_line_items(db, order_id) ==
    RowsWhere(db.line_items, LAMBDA r : r.Order_ID = order_id)

\* mutant: the join ignores the order's provider_id
ProviderRows_AnyProvider(db, order_id) ==
    LET o == RowsWhere(db.orders, LAMBDA r : r.Order_ID = order_id)
    IN IF o = <<>> THEN <<>> ELSE db.providers

\* the join of get_provider_details and get_full_details
ProviderRows(db, order_id) ==
    LET o == RowsWhere(db.orders, LAMBDA r : r.Order_ID = order_id)
    IN IF o = <<>> THEN <<>>
       ELSE RowsWhere(db.providers, LAMBDA p : p.PrimaryKey = o[1].provider_id)

\* DatabaseService.get_provider_details
get_provider_details(db, order_id) ==
    IF ProviderRows(db, order_id) = <<>> THEN NoneVal ELSE ProviderRows(db, order_id)[1]

\* mutant: the order row is taken for granted
get_full_details_AnyOrder(db, order_id) ==
    [order_details |-> [Order_ID |-> order_id, provider_id |-> NoneVal,
                        bundle_type |-> NoneVal]]

\* DatabaseService.get_full_details: only the tables with a row get a key
get_full_details(db, order_id) ==
    LET o == RowsWhere(db.orders, LAMBDA r : r.Order_ID = order_id)
        p == ProviderRows(db, order_id)
        l == get_line_items(db, order_id)
        keys == (IF o # <<>> THEN {"order_details"} ELSE {})
                \cup (IF p # <<>> THEN {"provider_details"} ELSE {})
                \cup (IF l # <<>> THEN {"line_items"} ELSE {})
    IN [k \in keys |->
            CASE k = "order_details" -> o[1]
              [] k = "provider_details" -> p[1]
              [] k = "line_items" -> l[1]]

\* mutant: pd.isna in place of pd.notna
check_bundle_Inverted(db, order_id) ==
    LET o == RowsWhere(db.orders, LAMBDA r : r.Order_ID = order_id)
    IN IF o = <<>> THEN FALSE ELSE o[1].bundle_type = NoneVal

\* DatabaseService.check_bundle
check_bundle(db, order_id) ==
    LET o == RowsWhere(db.orders, LAMBDA r : r.Order_ID = order_id)
    IN IF o = <<>> THEN FALSE ELSE o[1].bundle_type # NoneVal

-----------------------------------------------------------------------------
(* core/validators/rates.py                                                *)

\* Python floats: a rate is a count of the smallest amount the model tells
\* apart, kept with a significand of FloatBits bits; a result that needs more
\* bits is rounded to the nearest representable value, ties to the even one
FloatRound(n) ==
    IF n < 2^FloatBits THEN n
    ELSE LET k == CHOOSE j \in 1..(30 - FloatBits) :
                    n >= 2^(FloatBits + j - 1) /\ n < 2^(FloatBits + j)
             ulp == 2^k
             q == n \div ulp
             r == n % ulp
         IN IF 2 * r > ulp \/ (2 * r = ulp /\ q % 2 = 1)
                THEN (q + 1) * ulp
                ELSE q * ulp

\* float + float
FloatAdd(a, b) == FloatRound(a + b)

\* float * int
FloatMul(a, b) == FloatRound(a * b)

\* line.get("bundle_type") is truthy
BundleTagged(line) == "bundle_type" \in DOMAIN line /\ ~Falsy(line.bundle_type)

\* dict(zip(proc_cd, proc_category)) of the dim_proc table
proc_categories(db) == [c \in {c \in DOMAIN db.dim_proc : db.dim_proc[c] # NoRow} |-> db.dim_proc[c]]

\* `cpt in proc_categories and proc_categories[cpt].lower() == 'ancillary'`
\* raises AttributeError when the stored category is NULL
AncillaryTestRaises(db, line) ==
    /\ ~BundleTagged(line)
    /\ line.cpt \in DOMAIN proc_categories(db)
    /\ proc_categories(db)[line.cpt] = NoneVal

\* SELECT rate FROM ppo WHERE TRIM(TIN) = ? AND proc_cd = ?
ppo_rate(db, clean_provider_tin, cpt) ==
    IF clean_provider_tin = NoneVal THEN <<>>
    ELSE RowsWhere(db.ppo, LAMBDA r : StripChars(r.TIN) = clean_provider_tin /\ r.proc_cd = cpt)

\* SELECT rate FROM current_otas WHERE ID_Order_PrimaryKey = ? AND CPT = ?
ota_rates(db, order_id, cpt) ==
    RowsWhere(db.current_otas, LAMBDA r : r.ID_Order_PrimaryKey = order_id /\ r.CPT = cpt)

\* the line as validate() leaves it in the caller's list
RateLineAfter(line) ==
    IF BundleTagged(line)
        THEN [k \in DOMAIN line \cup {"validated_rate"} |->
                IF k = "validated_rate" THEN "BUNDLED" ELSE line[k]]
        ELSE line

\* `{**line, ...}`: the line's keys, overridden and extended by `extra`
WithKeys(line, extra) == extra @@ line

\* RateValidator.validate, the loop body: the entry appended to rate_results
RateLine(db, clean_provider_tin, order_id, line) ==
    LET cpt == line.cpt
        units == safe_int(line.units, 0)
        ppo == ppo_rate(db, clean_provider_tin, cpt)
        ota == ota_rates(db, order_id, cpt)
        Priced(base_rate, source) ==
            WithKeys(line, [status |-> "PASS", base_rate |-> base_rate,
                            unit_adjusted_rate |-> FloatMul(base_rate, units),
                            units |-> units,
                            rate_source |-> source,
                            validated_rate |-> FloatMul(base_rate, units)])
    IN IF BundleTagged(line) THEN
            WithKeys(RateLineAfter(line), [status |-> "PASS", rate_source |-> "Bundle"])
       ELSE IF cpt \in DOMAIN proc_categories(db)
               /\ Lower(proc_categories(db)[cpt]) = "ancillary" THEN
            Priced(0, "Ancillary")
       ELSE IF ppo # <<>> THEN Priced(FloatRound(ppo[1].rate), "PPO")
       ELSE IF ota # <<>> THEN Priced(FloatRound(ota[1].rate), "OTA")
       ELSE WithKeys(line, [validated_rate |-> NoneVal, status |-> "FAIL",
                            base_rate |-> NoneVal, unit_adjusted_rate |-> NoneVal,
                            units |-> units, rate_source |-> NoneVal,
                            message |-> <<"No rate found for CPT", cpt>>])

\* mutant: the base rates are added up, not the unit-adjusted rates
RECURSIVE TotalRate_BaseRate(_)
TotalRate_BaseRate(rate_results) ==
    IF rate_results = <<>> THEN 0
    ELSE TotalRate_BaseRate(Tail(rate_results))
         + (IF Head(rate_results).status = "PASS"
               /\ Head(rate_results).rate_source \in {"PPO", "OTA"}
            THEN Head(rate_results).base_rate ELSE 0)

\* total_rate: `total_rate += unit_adjusted_rate` in the PPO and OTA branches,
\* line after line, every sum rounded as a float
RECURSIVE TotalRate(_)
TotalRate(rate_results) ==
    IF rate_results = <<>> THEN 0
    ELSE LET n == Len(rate_results)
             last == rate_results[n]
             total_rate == TotalRate(SubSeq(rate_results, 1, n - 1))
         IN IF last.status = "PASS" /\ last.rate_source \in {"PPO", "OTA"}
                THEN FloatAdd(total_rate, last.unit_adjusted_rate)
                ELSE total_rate

\* mutant: the failing codes are not listed
generate_messages_NoMissing(rate_results, total_rate) ==
    LET failures == SelectSeq(rate_results, LAMBDA r : r.status = "FAIL")
    IN IF failures = <<>> THEN
            << <<"All rates validated successfully. Total rate", total_rate>> >>
       ELSE << <<"Failed to validate rates for CPT codes", Len(failures)>> >>

\* RateValidator._generate_messages
generate_messages(rate_results, total_rate) ==
    LET passed == SelectSeq(rate_results, LAMBDA r : r.status = "PASS")
        failures == SelectSeq(rate_results, LAMBDA r : r.status = "FAIL")
        sources == {passed[i].rate_source : i \in 1..Len(passed)}
        rate_sources ==
            [src \in sources |-> Cardinality({i \in 1..Len(passed) : passed[i].rate_source = src})]
    IN IF failures = <<>> THEN
            << <<"All rates validated successfully. Total rate", total_rate, rate_sources>> >>
       ELSE << <<"Failed to validate rates for CPT codes", Len(failures)>>,
               <<"Missing rates for", [i \in 1..Len(failures) |-> failures[i].cpt]>> >>
            \o (IF Len(rate_results) > Len(failures)
                THEN << <<"Successfully validated CPT codes. Partial total",
                          Len(rate_results) - Len(failures), total_rate>> >>
                ELSE <<>>)

\* RateValidator.validate: the dict returned, or [exception |-> ...] when the
\* loop raises
RateValidator_validate(db, hcfa_lines, order_id) ==
    LET provider_details == get_provider_details(db, order_id)
        clean_provider_tin == clean_tin(provider_details.TIN)
        rate_results ==
            [i \in 1..Len(hcfa_lines) |-> RateLine(db, clean_provider_tin, order_id, hcfa_lines[i])]
        total_rate == TotalRate(rate_results)
        has_failures == \E i \in 1..Len(rate_results) : rate_results[i].status = "FAIL"
    IN IF ProviderRows(db, order_id) = <<>> THEN
            [status |-> "FAIL", reason |-> "Provider details not found",
             results |-> <<>>, total_rate |-> 0]
       ELSE IF \E i \in 1..Len(hcfa_lines) : AncillaryTestRaises(db, hcfa_lines[i]) THEN
            [exception |-> "AttributeError"]
       ELSE [status |-> IF has_failures THEN "FAIL" ELSE "PASS",
             results |-> rate_results,
             total_rate |-> total_rate,
             provider_details |-> provider_details,
             messages |-> generate_messages(rate_results, total_rate)]

\* the caller's line list after RateValidator.validate: the bundle-tagged
\* lines the loop reached carry validated_rate
RateValidator_lines_after(db, hcfa_lines, order_id) ==
    LET raising == {i \in 1..Len(hcfa_lines) : AncillaryTestRaises(db, hcfa_lines[i])}
        reached == IF ProviderRows(db, order_id) = <<>> THEN 0
                   ELSE IF raising = {} THEN Len(hcfa_lines)
                   ELSE CHOOSE i \in raising : \A j \in raising : i <= j
    IN [i \in 1..Len(hcfa_lines) |->
            IF i <= reached THEN RateLineAfter(hcfa_lines[i]) ELSE hcfa_lines[i]]

-----------------------------------------------------------------------------
(* core/services/normalizer.py                                             *)

\* ','.join(modifiers)
RECURSIVE Join(_)
Join(mods) ==
    IF mods = <<>> THEN <<>>
    ELSE IF Len(mods) = 1 THEN mods[1]
    ELSE mods[1] \o <<",">> \o Join(Tail(mods))

\* mutant: the normalizer tags every line as part of a bundle
NormalizeLine_Tagged(line) ==
    [cpt |-> line.cpt_code,
     modifier |-> Join(line.modifiers),
     units |-> IF "units" \in DOMAIN line THEN line.units ELSE "1",
     charge |-> "0.00",
     bundle_type |-> "EMG Visit"]

\* normalize_hcfa_format, one service line: units defaults to 1 only when the
\* key is absent; no modifiers gives None (<<>>); the documents of the model
\* give no charge_amount
NormalizeLine(line) ==
    [cpt |-> line.cpt_code,
     modifier |-> Join(line.modifiers),
     units |-> IF "units" \in DOMAIN line THEN line.units ELSE "1",
     charge |-> "0.00"]

\* normalize_hcfa_format raises IndexError on `service_lines: []`
NormalizeRaises(data) == "service_lines" \in DOMAIN data /\ data.service_lines = <<>>

\* normalize_hcfa_format
normalize_hcfa_format(data) ==
    [Order_ID |-> data.Order_ID,
     line_items |->
        IF "service_lines" \in DOMAIN data
            THEN [i \in 1..Len(data.service_lines) |-> NormalizeLine(data.service_lines[i])]
            ELSE <<>>]

-----------------------------------------------------------------------------
(* The reference snapshot and the claim files of Spec.                     *)

TinP1 == <<"1", "2", "-", "3", "4", "5", "6", "7", "8", "9">>

RefDB ==
    [orders |->
        << [Order_ID |-> "O1", provider_id |-> "P1", bundle_type |-> NoneVal],
           [Order_ID |-> "O2", provider_id |-> "P1", bundle_type |-> "EMG Visit"],
           [Order_ID |-> "O3", provider_id |-> "P9", bundle_type |-> NoneVal] >>,
     providers |->
        << [PrimaryKey |-> "P1", TIN |-> TinP1, network |-> "In Network"] >>,
     line_items |->
        << [id |-> 1, Order_ID |-> "O1", CPT |-> "99214"],
           [id |-> 2, Order_ID |-> "O1", CPT |-> "95910"],
           [id |-> 3, Order_ID |-> "O2", CPT |-> "95910"],
           [id |-> 4, Order_ID |-> "O3", CPT |-> "99214"] >>,
     ppo |->
        << [TIN |-> clean_tin(TinP1), proc_cd |-> "99214", rate |-> 100] >>,
     current_otas |->
        << [ID_Order_PrimaryKey |-> "O1", CPT |-> "95910", rate |-> 50] >>,
     dim_proc |->
        [c \in {"99214", "95910", "99070", "51655"} |->
            CASE c = "99214" -> "E&M"
              [] c = "95910" -> "EMG"
              [] c = "99070" -> NoneVal
              [] c = "51655" -> "MRI"]]

\* order ids a claim file may carry; "O9" has no orders row
OrderIds == {"O1", "O2", "O3", "O9"}

RawLines ==
    [cpt_code : {"99214", "95910", "99070", "51655"},
     modifiers : {<<>>, << <<"t", "c">> >>}]
    \cup
    [cpt_code : {"99214", "95910", "99070", "51655"},
     modifiers : {<<>>, << <<"t", "c">> >>},
     units : {"3"}]

\* the parsed JSON documents a claim file may hold
RawFiles ==
    [Order_ID : OrderIds]
    \cup [Order_ID : OrderIds, service_lines : SeqsUpTo(RawLines, MaxLines)]

\* a file that json.load rejects
BadJson == [Order_ID |-> NoneVal, invalid_json |-> TRUE]

\* a file whose content is left open until process_file reads it
Unread == [Order_ID |-> NoneVal, unread |-> TRUE]

\* what open() and json.load can find in a file
FileContents(file) ==
    IF file = Unread THEN RawFiles \cup {BadJson} ELSE {file}

-----------------------------------------------------------------------------
(* main.py: BillReviewApplication                                          *)

\* a process_file local that has not been assigned
Unset == [status |-> "<unset>"]

\* ValidationResult(**base_result, status=..., validation_type=..., ...)
ValidationResult(base, status, validation_type, details, messages) ==
    [file_name |-> base.file_name,
     order_id |-> base.order_id,
     status |-> status,
     validation_type |-> validation_type,
     details |-> details,
     messages |-> messages]

\* JSONValidationLogger.log_validation
log_validation(res, result) == Append(res, result)

\* JSONValidationLogger._determine_error_code: the first of "modifier", "unit",
\* "rate", "bundle", "line_item" found in the lower-cased validation type
determine_error_code(result) ==
    CASE result.validation_type = "modifier_check" -> "MOD_001"
      [] result.validation_type = "unit_check" -> "UNIT_001"
      [] result.validation_type = "rate" -> "RATE_001"
      [] result.validation_type = "bundle_check" -> "BNDL_001"
      [] result.validation_type = "line_items" -> "LINE_001"
      [] OTHER -> "UNK_001"

\* JSONValidationLogger._create_failure_record
create_failure_record(result) ==
    [file_name |-> result.file_name,
     order_id |-> result.order_id,
     validation_type |-> result.validation_type,
     error_code |-> determine_error_code(result),
     status |-> "FAIL",
     message |-> IF result.messages # <<>> THEN result.messages[1]
                 ELSE <<result.validation_type, "validation failed">>]

\* JSONValidationLogger._create_pass_record
create_pass_record(result) ==
    [file_name |-> result.file_name,
     order_id |-> result.order_id,
     status |-> "PASS",
     total_checks |-> IF "results" \in DOMAIN result.details
                        THEN Len(result.details.results) ELSE 0,
     failed_checks |-> 0]

\* mutant: only the verdict's own status decides its bucket
in_passes_OwnStatus(res, r) == r.status = "PASS"

\* save: `r.status == "PASS" and all(v.status == "PASS" for v in self.results
\* if v.file_name == r.file_name)`
in_passes(res, r) ==
    /\ r.status = "PASS"
    /\ \A k \in 1..Len(res) : res[k].file_name = r.file_name => res[k].status = "PASS"

\* JSONValidationLogger.save: the pass file, the failure file and the summary
save(res) ==
    LET passed == SelectSeq(res, LAMBDA r : in_passes(res, r))
        failed == SelectSeq(res, LAMBDA r : ~in_passes(res, r))
        passes == [i \in 1..Len(passed) |-> create_pass_record(passed[i])]
        failures == [i \in 1..Len(failed) |-> create_failure_record(failed[i])]
        failure_types ==
            [t \in {failed[i].validation_type : i \in 1..Len(failed)} |->
                Cardinality({i \in 1..Len(failed) : failed[i].validation_type = t})]
    IN [passes |-> passes,
        failures |-> failures,
        summary |-> [total_files |-> Len(passes) + Len(failures),
                     passed_files |-> Len(passes),
                     failed_files |-> Len(failures),
                     failure_breakdown |-> failure_types]]

\* mutant: the rate result's status is not looked at
RateVerdict_AlwaysPass(base, line_res, rate_res) ==
    ValidationResult(base, "PASS", "final", rate_res @@ line_res,
                     <<"Line item and rate validation passed">>)

\* process_file, after rate validation: the verdict logged for a rate result
RateVerdict(base, line_res, rate_res) ==
    IF rate_res.status = "FAIL" THEN
        ValidationResult(base, "FAIL", "rate", rate_res, <<"Rate validation failed">>)
    ELSE
        ValidationResult(base, "PASS", "final", rate_res @@ line_res,
                         <<"Line item and rate validation passed">>)

\* mutant: the except branch swallows the error without logging a verdict
ProcessError_Dropped(error) ==
    /\ pc' = "next_file"
    /\ UNCHANGED results

\* the except branch of process_file
ProcessError(error) ==
    /\ results' = log_validation(results,
            ValidationResult(base_result, "FAIL", "process_error",
                             [error |-> error], <<"Error processing file", error>>))
    /\ pc' = "next_file"

\* mutant: no except branch, the exception leaves process_file and run
Raise_Propagates(error) ==
    /\ raised' = error
    /\ pc' = "done"
    /\ UNCHANGED results

\* an exception raised inside the try block reaches the except branch
Raise(error) ==
    /\ raised' = error
    /\ ProcessError(error)

MatchIdle == UNCHANGED <<m_hcfa_lines, m_order_lines, m_result, files, saved>>

\* run(): the connection is opened, dim_proc is read and the validators built
RunStart ==
    /\ pc = "run_start"
    /\ dim_proc' = conn.dim_proc
    /\ pc' = "next_file"
    /\ UNCHANGED <<idx, hcfa_data, base_result, modifier_result, units_result,
                   line_items_result, rate_result, calls, raised, results, conn>>
    /\ MatchIdle

\* run() hands the next file to process_file, which builds base_result
ProcessFileStart ==
    /\ pc = "next_file"
    /\ idx < Len(files)
    /\ idx' = idx + 1
    /\ base_result' = [file_name |-> idx + 1, order_id |-> NoneVal]
    /\ hcfa_data' = [Order_ID |-> NoneVal, line_items |-> <<>>]
    /\ modifier_result' = Unset
    /\ units_result' = Unset
    /\ line_items_result' = Unset
    /\ rate_result' = Unset
    /\ calls' = <<>>
    /\ raised' = NoneVal
    /\ pc' = "load"
    /\ UNCHANGED <<results, conn, dim_proc>>
    /\ MatchIdle

\* process_file: json.load, normalize_hcfa_format, the provider and order
\* lookups and base_result.update
Load ==
    /\ pc = "load"
    /\ \E raw \in FileContents(files[idx]) :
        LET data == normalize_hcfa_format(raw)
        IN IF raw = BadJson THEN
                /\ Raise("JSONDecodeError")
                /\ UNCHANGED <<hcfa_data, base_result>>
           ELSE IF NormalizeRaises(raw) THEN
                /\ Raise("IndexError")
                /\ UNCHANGED <<hcfa_data, base_result>>
           ELSE IF "order_details" \notin DOMAIN get_full_details(conn, data.Order_ID) THEN
                /\ hcfa_data' = data
                /\ Raise("KeyError")
                /\ UNCHANGED base_result
           ELSE /\ hcfa_data' = data
                /\ base_result' = [base_result EXCEPT !.order_id = data.Order_ID]
                /\ pc' = "modifier"
                /\ UNCHANGED <<results, raised>>
    /\ UNCHANGED <<idx, modifier_result, units_result, line_items_result,
                   rate_result, calls, conn, dim_proc>>
    /\ MatchIdle

\* mutant: the `return` after logging the modifier failure is missing
ModifierStage_NoReturn ==
    /\ pc = "modifier"
    /\ LET r == ModifierValidator_validate(hcfa_data)
       IN /\ modifier_result' = r
          /\ calls' = Append(calls, "modifier")
          /\ pc' = "units"
          /\ IF r.status = "FAIL" THEN
                results' = log_validation(results,
                    ValidationResult(base_result, "FAIL", "modifier_check", r, <<>>))
             ELSE UNCHANGED results
    /\ UNCHANGED <<idx, hcfa_data, base_result, units_result, line_items_result,
                   rate_result, raised, conn, dim_proc>>
    /\ UNCHANGED <<m_hcfa_lines, m_order_lines, m_result, files, saved>>

\* process_file: modifier validation
ModifierStage ==
    /\ pc = "modifier"
    /\ LET r == ModifierValidator_validate(hcfa_data)
       IN /\ modifier_result' = r
          /\ calls' = Append(calls, "modifier")
          /\ IF r.status = "FAIL" THEN
                /\ results' = log_validation(results,
                        ValidationResult(base_result, "FAIL", "modifier_check", r, <<>>))
                /\ pc' = "next_file"
             ELSE /\ pc' = "units"
                  /\ UNCHANGED results
    /\ UNCHANGED <<idx, hcfa_data, base_result, units_result, line_items_result,
                   rate_result, raised, conn, dim_proc>>
    /\ MatchIdle

\* mutant: the units validator remembers every code it has seen as ancillary
UnitsStage_MarksAncillary ==
    /\ pc = "units"
    /\ LET r == UnitsValidator_validate(dim_proc, hcfa_data)
       IN /\ units_result' = r
          /\ calls' = Append(calls, "units")
          /\ IF r.status = "FAIL" THEN
                /\ results' = log_validation(results,
                        ValidationResult(base_result, "FAIL", "unit_check", r, <<>>))
                /\ pc' = "next_file"
             ELSE /\ pc' = "bundle"
                  /\ UNCHANGED results
    /\ dim_proc' = [c \in DOMAIN dim_proc |-> "Ancillary"]
    /\ UNCHANGED <<idx, hcfa_data, base_result, modifier_result, line_items_result,
                   rate_result, raised, conn>>
    /\ MatchIdle

\* process_file: units validation
UnitsStage ==
    /\ pc = "units"
    /\ LET r == UnitsValidator_validate(dim_proc, hcfa_data)
       IN /\ units_result' = r
          /\ calls' = Append(calls, "units")
          /\ IF r.status = "FAIL" THEN
                /\ results' = log_validation(results,
                        ValidationResult(base_result, "FAIL", "unit_check", r, <<>>))
                /\ pc' = "next_file"
             ELSE /\ pc' = "bundle"
                  /\ UNCHANGED results
    /\ UNCHANGED <<idx, hcfa_data, base_result, modifier_result, line_items_result,
                   rate_result, raised, conn, dim_proc>>
    /\ MatchIdle

\* process_file: the order's bundle flag
BundleStage ==
    /\ pc = "bundle"
    /\ calls' = Append(calls, "bundle")
    /\ \E db_error \in BOOLEAN :
        IF db_error THEN Raise("DatabaseError")
        ELSE IF check_bundle(conn, hcfa_data.Order_ID) THEN
            /\ results' = log_validation(results,
                    ValidationResult(base_result, "FAIL", "bundle_check", <<>>, <<>>))
            /\ pc' = "next_file"
            /\ UNCHANGED raised
        ELSE /\ pc' = "line_items"
             /\ UNCHANGED <<results, raised>>
    /\ UNCHANGED <<idx, hcfa_data, base_result, modifier_result, units_result,
                   line_items_result, rate_result, conn, dim_proc>>
    /\ MatchIdle

\* process_file: line items validation
LineItemsStage ==
    /\ pc = "line_items"
    /\ calls' = Append(calls, "line_items")
    /\ \E db_error \in BOOLEAN :
        IF db_error THEN
            /\ Raise("DatabaseError")
            /\ UNCHANGED line_items_result
        ELSE
            LET order_lines == get_line_items(conn, hcfa_data.Order_ID)
                r == LineItemValidator_validate(dim_proc, hcfa_data.line_items, order_lines)
            IN /\ line_items_result' = r
               /\ UNCHANGED raised
               /\ IF r.status = "FAIL" THEN
                    /\ results' = log_validation(results,
                            ValidationResult(base_result, "FAIL", "line_items", r,
                                             <<"Line item validation failed">>))
                    /\ pc' = "next_file"
                  ELSE /\ pc' = "rate"
                       /\ UNCHANGED results
    /\ UNCHANGED <<idx, hcfa_data, base_result, modifier_result, units_result,
                   rate_result, conn, dim_proc>>
    /\ MatchIdle

\* mutant: a one-time agreement is used up by the first claim priced from it
RateStage_ConsumesOta ==
    /\ pc = "rate"
    /\ calls' = Append(calls, "rate")
    /\ \E db_error \in BOOLEAN :
        IF db_error THEN
            /\ Raise("DatabaseError")
            /\ UNCHANGED <<rate_result, hcfa_data>>
        ELSE
            LET r == RateValidator_validate(conn, hcfa_data.line_items, hcfa_data.Order_ID)
            IN /\ hcfa_data' = [hcfa_data EXCEPT !.line_items =
                        RateValidator_lines_after(conn, hcfa_data.line_items, hcfa_data.Order_ID)]
               /\ IF "exception" \in DOMAIN r THEN
                    /\ Raise(r.exception)
                    /\ UNCHANGED rate_result
                  ELSE
                    /\ rate_result' = r
                    /\ UNCHANGED raised
                    /\ pc' = "next_file"
                    /\ results' = log_validation(results,
                            RateVerdict(base_result, line_items_result, r))
    /\ conn' = [conn EXCEPT !.current_otas = <<>>]
    /\ UNCHANGED <<idx, base_result, modifier_result, units_result,
                   line_items_result, dim_proc>>
    /\ MatchIdle

\* process_file: rate validation and the final verdict
RateStage ==
    /\ pc = "rate"
    /\ calls' = Append(calls, "rate")
    /\ \E db_error \in BOOLEAN :
        IF db_error THEN
            /\ Raise("DatabaseError")
            /\ UNCHANGED <<rate_result, hcfa_data>>
        ELSE
            LET r == RateValidator_validate(conn, hcfa_data.line_items, hcfa_data.Order_ID)
            IN /\ hcfa_data' = [hcfa_data EXCEPT !.line_items =
                        RateValidator_lines_after(conn, hcfa_data.line_items, hcfa_data.Order_ID)]
               /\ IF "exception" \in DOMAIN r THEN
                    /\ Raise(r.exception)
                    /\ UNCHANGED rate_result
                  ELSE
                    /\ rate_result' = r
                    /\ UNCHANGED raised
                    /\ pc' = "next_file"
                    /\ results' = log_validation(results,
                            RateVerdict(base_result, line_items_result, r))
    /\ UNCHANGED <<idx, base_result, modifier_result, units_result,
                   line_items_result, conn, dim_proc>>
    /\ MatchIdle

\* run(): every file has been processed; the logger saves
Finish ==
    /\ pc = "next_file"
    /\ idx = Len(files)
    /\ saved' = save(results)
    /\ pc' = "done"
    /\ UNCHANGED <<idx, hcfa_data, base_result, modifier_result, units_result,
                   line_items_result, rate_result, calls, raised, results, conn,
                   dim_proc, m_hcfa_lines, m_order_lines, m_result, files>>

Init ==
    /\ pc = "run_start"
    /\ idx = 0
    /\ hcfa_data = [Order_ID |-> NoneVal, line_items |-> <<>>]
    /\ base_result = [file_name |-> 0, order_id |-> NoneVal]
    /\ modifier_result = Unset
    /\ units_result = Unset
    /\ line_items_result = Unset
    /\ rate_result = Unset
    /\ calls = <<>>
    /\ raised = NoneVal
    /\ results = <<>>
    /\ conn = RefDB
    /\ dim_proc = [c \in {} |-> NoRow]
    /\ m_hcfa_lines = <<>>
    /\ m_order_lines = <<>>
    /\ m_result = Unset
    /\ files = [i \in 1..NumFiles |-> Unread]
    /\ saved = Unset

Next ==
    \/ RunStart
    \/ ProcessFileStart
    \/ Load
    \/ ModifierStage
    \/ UnitsStage
    \/ BundleStage
    \/ LineItemsStage
    \/ RateStage
    \/ Finish

Spec == Init /\ [][Next]_vars

-----------------------------------------------------------------------------
(* SpecMatch: LineItemValidator.validate on bounded inputs.                *)

MatchCodes == {"95910", "95886", "99070", "99214", "51655"}

\* contents of dim_proc_df: every kind of missing or invalid category on one
\* code, valid categories in several spellings on the others
DimProcs ==
    {[c \in MatchCodes |->
        CASE c = "99070" -> c1
          [] c = "99214" -> c2
          [] c = "95910" -> c3
          [] c = "95886" -> c4
          [] c = "51655" -> "MRI"] :
        c1 \in {NoRow, NoneVal, "", "0", " ", "MRI", "Ancillary"},
        c2 \in {"MRI", "E&M", "0"},
        c3 \in {"EMG", "MRI"},
        c4 \in {"emg", "Ancillary"}}

\* claim lines as validate() reads them
MatchHcfaLines == {[i \in DOMAIN s |-> [cpt |-> s[i]]] : s \in SeqsUpTo(MatchCodes, MaxLines)}

\* order rows as validate() reads them; the row id is the row's position
MatchOrderLines ==
    {[i \in DOMAIN s |-> [id |-> i, CPT |-> s[i]]] : s \in SeqsUpTo(MatchCodes, MaxOrderLines)}

InitMatch ==
    /\ pc = "match_call"
    /\ idx = 0
    /\ hcfa_data = [Order_ID |-> NoneVal, line_items |-> <<>>]
    /\ base_result = [file_name |-> 0, order_id |-> NoneVal]
    /\ modifier_result = Unset
    /\ units_result = Unset
    /\ line_items_result = Unset
    /\ rate_result = Unset
    /\ calls = <<>>
    /\ raised = NoneVal
    /\ results = <<>>
    /\ conn = RefDB
    /\ dim_proc \in DimProcs
    /\ m_hcfa_lines \in MatchHcfaLines
    /\ m_order_lines \in MatchOrderLines
    /\ m_result = Unset
    /\ files = <<>>
    /\ saved = Unset

\* validators['line_items'].validate(hcfa_lines, order_lines)
MatchValidate ==
    /\ pc = "match_call"
    /\ m_result' = LineItemValidator_validate(dim_proc, m_hcfa_lines, m_order_lines)
    /\ pc' = "match_returned"
    /\ UNCHANGED <<idx, hcfa_data, base_result, modifier_result, units_result,
                   line_items_result, rate_result, calls, raised, results, conn,
                   dim_proc, m_hcfa_lines, m_order_lines, files, saved>>

NextMatch == MatchValidate

SpecMatch == InitMatch /\ [][NextMatch]_vars

-----------------------------------------------------------------------------
(* Properties of process_file and run (checked under Spec).                *)

\* the stages of process_file in the order of the source
StageOrder == <<"modifier", "units", "bundle", "line_items", "rate">>

IsPrefix(s, t) == Len(s) <= Len(t) /\ \A i \in 1..Len(s) : s[i] = t[i]

Called(stage) == stage \in Range(calls)

\* process_file has returned for file idx
FileEnded == idx >= 1 /\ pc \in {"next_file", "done"}

\* the verdicts logged for file k
VerdictsOf(k) == SelectSeq(results, LAMBDA v : v.file_name = k)

LastVerdict == results[Len(results)]

\* the run of file idx ended in exactly one verdict, with this status and tag
EndedWith(status, validation_type) ==
    /\ FileEnded
    /\ Len(VerdictsOf(idx)) = 1
    /\ LastVerdict.file_name = idx
    /\ LastVerdict.status = status
    /\ LastVerdict.validation_type = validation_type

\* the orders table flags the current claim's order as bundled
OrderFlaggedBundled ==
    \E i \in 1..Len(conn.orders) :
        /\ conn.orders[i].Order_ID = hcfa_data.Order_ID
        /\ conn.orders[i].bundle_type # NoneVal

\* C1: within one file's run the stages are entered in the order modifier,
\* units, bundle check, line items, rate; a stage is entered only after every
\* earlier stage returned without Fail; and once the modifier, units,
\* line-item or rate stage has returned Fail the run has ended with a single
\* Fail verdict tagged with that stage (validation_type modifier_check,
\* unit_check, line_items, rate) and no later stage was entered.
C1_StagesInOrderStopAtFail ==
    /\ IsPrefix(calls, StageOrder)
    /\ Called("units") => modifier_result.status = "PASS"
    /\ Called("bundle") => units_result.status = "PASS"
    /\ Called("line_items") => ~OrderFlaggedBundled
    /\ Called("rate") => line_items_result.status \notin {"FAIL", "<unset>"}
    /\ modifier_result.status = "FAIL" =>
            EndedWith("FAIL", "modifier_check") /\ calls = SubSeq(StageOrder, 1, 1)
    /\ units_result.status = "FAIL" =>
            EndedWith("FAIL", "unit_check") /\ calls = SubSeq(StageOrder, 1, 2)
    /\ line_items_result.status = "FAIL" =>
            EndedWith("FAIL", "line_items") /\ calls = SubSeq(StageOrder, 1, 4)
    /\ rate_result.status = "FAIL" =>
            EndedWith("FAIL", "rate") /\ calls = StageOrder

\* a units Fail reached after a modifier Pass, and a rate Fail reached after
\* all four earlier stages
C1_Witness ==
    /\ Len(results) = 2
    /\ results[1].validation_type = "unit_check"
    /\ rate_result.status = "FAIL"
    /\ calls = StageOrder

\* C2: every file of the batch is processed and the logger receives exactly
\* one verdict per file, whatever the outcomes of the files before it; run
\* ends only after the last file has been processed.
C2_OneVerdictPerClaim ==
    /\ Len(results) = (IF pc \in {"next_file", "done"} THEN idx
                       ELSE IF pc = "run_start" THEN 0 ELSE idx - 1)
    /\ \A k \in 1..Len(results) : results[k].file_name = k
    /\ pc = "done" => idx = NumFiles /\ Len(results) = NumFiles

\* the first file failed with an exception, the last one passed
C2_Witness ==
    /\ pc = "done"
    /\ results[1].validation_type = "process_error"
    /\ results[NumFiles].status = "PASS"

\* C3: an exception raised while a file is processed ends the file's run in
\* a single verdict, Fail with validation_type process_error, carrying the
\* error; control is back in run's loop; and a process_error verdict is
\* logged for no other reason.
C3_ExceptionBecomesProcessError ==
    /\ raised # NoneVal =>
            /\ EndedWith("FAIL", "process_error")
            /\ LastVerdict.details.error = raised
    /\ (FileEnded /\ LastVerdict.validation_type = "process_error") => raised # NoneVal

\* the rate resolver raised on a NULL category after four stages had passed
C3_Witness ==
    /\ raised = "AttributeError"
    /\ calls = StageOrder
    /\ line_items_result.status = "PASS"

\* the dict merge {**line_items_result, **rate_result}
Combined(line_res, rate_res, details) ==
    /\ DOMAIN details = DOMAIN line_res \cup DOMAIN rate_res
    /\ \A k \in DOMAIN rate_res : details[k] = rate_res[k]
    /\ \A k \in DOMAIN line_res \ DOMAIN rate_res : details[k] = line_res[k]

\* C4: a Pass verdict is logged only after the modifier and units validators
\* returned Pass, the order was not flagged as bundled, the line-item matcher
\* returned a non-Fail outcome and the rate resolver returned Pass, and its
\* details are the line-item result merged with the rate result; a non-Fail
\* matcher outcome never ends the run: the rate stage is entered.
C4_PassOnlyAfterAllStages ==
    /\ (FileEnded /\ LastVerdict.status = "PASS") =>
            /\ EndedWith("PASS", "final")
            /\ calls = StageOrder
            /\ modifier_result.status = "PASS"
            /\ units_result.status = "PASS"
            /\ ~OrderFlaggedBundled
            /\ line_items_result.status \in {"PASS", "BUNDLED"}
            /\ rate_result.status = "PASS"
            /\ Combined(line_items_result, rate_result, LastVerdict.details)
    /\ (FileEnded /\ line_items_result.status \notin {"FAIL", "<unset>"}) => Called("rate")

\* a Pass verdict whose details hold the matcher's match_type and the
\* resolver's total_rate
C4_Witness ==
    /\ FileEnded
    /\ LastVerdict.status = "PASS"
    /\ LastVerdict.details.match_type = "category_match"
    /\ LastVerdict.details.total_rate = 100

\* C5: when the order is flagged as bundled and the modifier and units stages
\* passed (and the lookup did not raise), the run ends in a single Fail
\* verdict tagged bundle_check; for such an order the line-item matcher and
\* the rate resolver are never entered and no Pass verdict is logged.
C5_BundledOrderStops ==
    /\ (FileEnded /\ OrderFlaggedBundled /\ raised = NoneVal
        /\ modifier_result.status = "PASS" /\ units_result.status = "PASS") =>
            /\ EndedWith("FAIL", "bundle_check")
            /\ calls = SubSeq(StageOrder, 1, 3)
    /\ OrderFlaggedBundled =>
            /\ ~Called("line_items")
            /\ ~Called("rate")
            /\ \A i \in 1..Len(VerdictsOf(idx)) : VerdictsOf(idx)[i].status # "PASS"

\* a flagged order stopped at the bundle check
C5_Witness ==
    /\ FileEnded
    /\ OrderFlaggedBundled
    /\ LastVerdict.validation_type = "bundle_check"
    /\ Len(hcfa_data.line_items) = MaxLines

-----------------------------------------------------------------------------
(* Properties of LineItemValidator.validate (checked under SpecMatch).     *)

MatchReturned == pc = "match_returned"

\* the claim's codes after the denylist filter, and the order's codes
ClaimCodes == {m_hcfa_lines[i].cpt : i \in 1..Len(m_hcfa_lines)} \ {"51655"}
OrderCodes == {m_order_lines[i].CPT : i \in 1..Len(m_order_lines)}

\* the EMG condition of the matcher's first step
EmgAccepts ==
    LET cs == ClaimCodes \cap emg_study_codes
        cn == ClaimCodes \cap emg_needle_codes
        os == OrderCodes \cap emg_study_codes
        on == OrderCodes \cap emg_needle_codes
    IN \/ cs # {} /\ cn # {}
       \/ cs # {} /\ cn = {} /\ os # {}
       \/ cn # {} /\ cs = {} /\ on # {}

IsMatch(r, match_type) ==
    /\ r.status = "PASS"
    /\ "match_type" \in DOMAIN r
    /\ r.match_type = match_type

\* the declared bundles: EMG_CONFIGURATIONS["BUNDLES"], which holds "EMG Visit"
BundleCodes == UNION {Range(emg_bundles[k].codes) : k \in 1..Len(emg_bundles)}

\* dim_proc gives the code no category, or an empty, "0" or blank one
BadCategory(c) == dim_proc[c] \in {NoRow, NoneVal, "", "0", " "}

\* C6: the matcher returns the EMG package match exactly when the filtered
\* claim codes hold a study and a needle code, or only study codes while the
\* order holds a study code, or only needle codes while the order holds a
\* needle code; in every other case a later step decides.
C6_EmgPrecedence == MatchReturned => (EmgAccepts <=> IsMatch(m_result, "emg_package_match"))

\* claim and order both hold exactly 95910 and 95886, so the exact match and
\* the declared bundle "EMG Visit" would apply as well
C6_Witness ==
    /\ MatchReturned
    /\ ClaimCodes = {"95910", "95886"}
    /\ OrderCodes = ClaimCodes
    /\ IsMatch(m_result, "emg_package_match")

\* C7: for the first declared bundle whose codes meet both the claim's and
\* the order's codes, the matcher returns status bundled with the bundle's
\* codes found on neither side as missing_cpts when claim and order codes
\* all lie in the bundle, and Fail otherwise; claim and order {95910, 95886}
\* give bundled with no missing code.
C7_DeclaredBundleContainment ==
    MatchReturned =>
        LET meets(k) == /\ Range(emg_bundles[k].codes) \cap ClaimCodes # {}
                        /\ Range(emg_bundles[k].codes) \cap OrderCodes # {}
            qualifying == {k \in 1..Len(emg_bundles) : meets(k)}
            first == CHOOSE k \in qualifying : \A j \in qualifying : k <= j
            bundle == Range(emg_bundles[first].codes)
        IN qualifying # {} =>
            IF ClaimCodes \cup OrderCodes \subseteq bundle THEN
                /\ m_result.status \in {"BUNDLED", "bundled"}
                /\ "missing_cpts" \in DOMAIN m_result
                /\ Range(m_result.missing_cpts) = bundle \ (ClaimCodes \cup OrderCodes)
            ELSE m_result.status = "FAIL"

\* C8 as stated: when the codes on the claim's lines and the order's codes are
\* the same set and hold no EMG code and no code of a declared bundle, the
\* matcher returns Pass with match type exact_match.
C8_ExactMatchOnClaimCodes ==
    (/\ MatchReturned
     /\ {m_hcfa_lines[i].cpt : i \in 1..Len(m_hcfa_lines)} = OrderCodes
     /\ OrderCodes \cap (emg_study_codes \cup emg_needle_codes \cup BundleCodes) = {})
        => IsMatch(m_result, "exact_match")

\* C8 (amended): when the claim's codes without the denylisted 51655 and the
\* order's codes are the same set and hold no EMG code and no code of a
\* declared bundle, the matcher returns Pass with match type exact_match,
\* however often a code is repeated.
C8_ExactMatch ==
    (/\ MatchReturned
     /\ ClaimCodes = OrderCodes
     /\ ClaimCodes \cap (emg_study_codes \cup emg_needle_codes \cup BundleCodes) = {})
        => IsMatch(m_result, "exact_match")

\* two claim lines with the same code against one order row with that code
C8_Witness ==
    /\ MatchReturned
    /\ Len(m_hcfa_lines) = 2
    /\ Len(m_order_lines) = 1
    /\ ClaimCodes = {"99214"}
    /\ OrderCodes = {"99214"}
    /\ IsMatch(m_result, "exact_match")

\* C9: the matcher never accepts when a surviving claim code or an order code
\* has a missing or invalid category; claim code 99070 with such a category
\* against an order holding 99070 gives Fail with reason "Missing or invalid
\* procedure categories" and an entry for 99070 with the claim as source.
C9_InvalidCategoryAlwaysFails ==
    (MatchReturned /\ \E c \in ClaimCodes \cup OrderCodes : BadCategory(c)) =>
        /\ m_result.status = "FAIL"
        /\ ("99070" \in ClaimCodes /\ "99070" \in OrderCodes /\ BadCategory("99070")) =>
            /\ m_result.reason = "Missing or invalid procedure categories"
            /\ \E i \in 1..Len(m_result.invalid_categories) :
                /\ m_result.invalid_categories[i].cpt = "99070"
                /\ m_result.invalid_categories[i].source \in {"hcfa", "claim"}

\* neither the EMG step nor the exact match decided
CategoryStepReached == MatchReturned /\ ~EmgAccepts /\ ClaimCodes # OrderCodes

\* the surviving claim lines and the order rows whose code has a bad category
OffendingClaimLines ==
    SelectSeq(m_hcfa_lines, LAMBDA l : l.cpt # "51655" /\ BadCategory(l.cpt))
OffendingOrderRows == SelectSeq(m_order_lines, LAMBDA r : BadCategory(r.CPT))

\* the category failure, reported before any counting
CategoryFailure(r) ==
    /\ r.status = "FAIL"
    /\ r.reason = "Missing or invalid procedure categories"
    /\ "mismatches" \notin DOMAIN r
    /\ "match_type" \notin DOMAIN r

\* C10 as stated: in the category step a bad category gives the category
\* failure with exactly one entry per offending code and source.
C10_OneEntryPerCode ==
    (CategoryStepReached /\ Len(OffendingClaimLines) + Len(OffendingOrderRows) > 0) =>
        /\ CategoryFailure(m_result)
        /\ \A c \in ClaimCodes : BadCategory(c) =>
            Cardinality({i \in 1..Len(m_result.invalid_categories) :
                /\ m_result.invalid_categories[i].cpt = c
                /\ m_result.invalid_categories[i].source = "hcfa"}) = 1
        /\ \A c \in OrderCodes : BadCategory(c) =>
            Cardinality({i \in 1..Len(m_result.invalid_categories) :
                /\ m_result.invalid_categories[i].cpt = c
                /\ m_result.invalid_categories[i].source = "order"}) = 1

\* C10 (amended): in the category step a bad category gives the category
\* failure, reported before and instead of any category counting, with one
\* entry per offending claim line (source hcfa) followed by one entry per
\* offending order row (source order); a code repeated on a side is listed
\* once per occurrence.
C10_OneEntryPerLine ==
    (CategoryStepReached /\ Len(OffendingClaimLines) + Len(OffendingOrderRows) > 0) =>
        /\ CategoryFailure(m_result)
        /\ Len(m_result.invalid_categories)
                = Len(OffendingClaimLines) + Len(OffendingOrderRows)
        /\ \A i \in 1..Len(OffendingClaimLines) :
            /\ m_result.invalid_categories[i].cpt = OffendingClaimLines[i].cpt
            /\ m_result.invalid_categories[i].source = "hcfa"
        /\ \A i \in 1..Len(OffendingOrderRows) :
            LET e == m_result.invalid_categories[Len(OffendingClaimLines) + i]
            IN e.cpt = OffendingOrderRows[i].CPT /\ e.source = "order"

\* a bad category on both sides, while the claim's valid code 99214 has no
\* counterpart in the order, so that counting would report a mismatch
C10_Witness ==
    /\ CategoryStepReached
    /\ m_hcfa_lines = <<[cpt |-> "99070"], [cpt |-> "99214"]>>
    /\ OrderCodes = {"99070"}
    /\ BadCategory("99070")
    /\ ~BadCategory("99214")
    /\ Len(m_result.invalid_categories) = 1 + Len(m_order_lines)
    /\ Len(m_order_lines) = 2

\* every surviving claim code and every order code has a valid category
AllCategoriesValid == \A c \in ClaimCodes \cup OrderCodes : ~BadCategory(c)

\* the code's category is "ancillary" in any letter case
IsAncillary(c) == Lower(dim_proc[c]) = "ancillary"

\* the categories of the claim's surviving non-ancillary codes
ClaimCategories == {dim_proc[c] : c \in {d \in ClaimCodes : ~IsAncillary(d)}}

\* number of distinct non-ancillary codes of a side with the category
CodeCount(codes, cat) == Cardinality({c \in codes : ~IsAncillary(c) /\ dim_proc[c] = cat})

\* number of non-ancillary, non-denylisted occurrences of codes with the
\* category in a list of codes
OccurrenceCount(cpts, cat) ==
    Len(SelectSeq(cpts, LAMBDA c : c # "51655" /\ ~IsAncillary(c) /\ dim_proc[c] = cat))

ClaimCpts == [i \in 1..Len(m_hcfa_lines) |-> m_hcfa_lines[i].cpt]
OrderCpts == [i \in 1..Len(m_order_lines) |-> m_order_lines[i].CPT]

\* the outcome of the counting step for given per-category counts: a category
\* match when no category other than EMG is short, otherwise the count
\* mismatch with one entry per short category
CountingOutcome(r, ClaimCount(_), OrderCount(_)) ==
    LET short == {cat \in ClaimCategories :
                    Upper(cat) # "EMG" /\ OrderCount(cat) < ClaimCount(cat)}
    IN IF short = {} THEN IsMatch(r, "category_match")
       ELSE /\ r.status = "FAIL"
            /\ r.reason = "Category count mismatch"
            /\ Len(r.mismatches) = Cardinality(short)
            /\ \A cat \in short : \E i \in 1..Len(r.mismatches) :
                /\ r.mismatches[i].category = cat
                /\ r.mismatches[i].hcfa_count = ClaimCount(cat)
                /\ r.mismatches[i].order_count = OrderCount(cat)
                /\ r.mismatches[i].difference = ClaimCount(cat) - OrderCount(cat)
                /\ r.mismatches[i].difference > 0

\* C11 as stated: when the category step is reached and every category is
\* valid, ancillary codes are left out and the occurrences of codes on the
\* claim's lines and on the order's rows are counted per category; the
\* matcher returns a category match iff no category other than EMG occurs
\* more often on the claim than on the order, and otherwise Fail with one
\* mismatch entry per short category (category, claim count, order count,
\* positive difference).
C11_CountOccurrences ==
    (CategoryStepReached /\ AllCategoriesValid) =>
        CountingOutcome(m_result,
                        LAMBDA cat : OccurrenceCount(ClaimCpts, cat),
                        LAMBDA cat : OccurrenceCount(OrderCpts, cat))

\* C11 (amended): when the category step is reached and every category is
\* valid, ancillary codes are left out and the distinct codes of each side
\* are counted per category, a code repeated on a side counting once; the
\* matcher returns a category match iff no category other than EMG has more
\* distinct claim codes than distinct order codes, and otherwise Fail with
\* one mismatch entry per short category (category, claim count, order
\* count, positive difference); an EMG shortfall alone never fails.
C11_CountDistinctCodes ==
    (CategoryStepReached /\ AllCategoriesValid) =>
        CountingOutcome(m_result,
                        LAMBDA cat : CodeCount(ClaimCodes, cat),
                        LAMBDA cat : CodeCount(OrderCodes, cat))

\* an ancillary claim code is left out, and the claim's other code is short
\* by one against an order without a code of its category
C11_Witness ==
    /\ CategoryStepReached
    /\ AllCategoriesValid
    /\ ClaimCodes = {"99070", "99214"}
    /\ IsAncillary("99070")
    /\ m_result.status = "FAIL"
    /\ m_result.reason = "Category count mismatch"
    /\ Len(m_result.mismatches) = 1
    /\ m_result.mismatches[1].difference = 1

-----------------------------------------------------------------------------
(* The denylisted code in process_file (checked under Spec).               *)

\* the claim lines that survive the denylist
Surviving(lines) == SelectSeq(lines, LAMBDA line : line.cpt \notin {"51655"})

\* C12: a claim line with the denylisted code 51655 takes no part in any
\* stage after the denylist: the line-item matcher decides as it would on
\* the claim without the line, and the rate resolver's results hold neither
\* a quote nor a rate failure for the code.
C12_DenylistedCodeIgnored ==
    /\ line_items_result.status # "<unset>" =>
            line_items_result =
                LineItemValidator_validate(dim_proc, Surviving(hcfa_data.line_items),
                                           get_line_items(conn, hcfa_data.Order_ID))
    /\ "results" \in DOMAIN rate_result =>
            \A i \in 1..Len(rate_result.results) : rate_result.results[i].cpt # "51655"

-----------------------------------------------------------------------------
(* The matcher's audit payload (checked under SpecMatch).                  *)

\* C13: whatever the outcome, the matcher's result carries
\* comparison_details with the claim's surviving codes, the order's codes
\* and a category for every code of each side.
C13_ComparisonDetailsAlways ==
    MatchReturned =>
        /\ "comparison_details" \in DOMAIN m_result
        /\ m_result.comparison_details.hcfa_codes = ClaimCodes
        /\ m_result.comparison_details.order_codes = OrderCodes
        /\ DOMAIN m_result.comparison_details.hcfa_categories = ClaimCodes
        /\ DOMAIN m_result.comparison_details.order_categories = OrderCodes

-----------------------------------------------------------------------------
(* RateValidator.validate on its own (SpecRate): the database contents,    *)
(* the order id and the claim lines are drawn from small sets.             *)

RateCodes == {"99214", "99070"}

\* a provider TIN clean_tin rejects (eight digits)
TinBad == <<"1", "2", "3", "4", "5", "6", "7", "8">>

\* rows of the ppo table for the codes in S, stored under the provider's tax
\* id without its dashes
PpoRows(tin, S) ==
    LET stored == SelectSeq(tin, LAMBDA ch : ch # "-")
    IN SelectSeq(<< [TIN |-> stored, proc_cd |-> "99214", rate |-> 100],
                    [TIN |-> stored, proc_cd |-> "99070", rate |-> 30] >>,
                 LAMBDA r : r.proc_cd \in S)

\* rows of the current_otas table of order O1 for the codes in S
OtaRows(S) ==
    SelectSeq(<< [ID_Order_PrimaryKey |-> "O1", CPT |-> "99214", rate |-> 50],
                 [ID_Order_PrimaryKey |-> "O1", CPT |-> "99070", rate |-> 20] >>,
              LAMBDA r : r.CPT \in S)

\* database contents: order O1 has a provider, order O3 has none; every
\* combination of negotiated and one-time rates and of categories
RateDBs ==
    {[orders |->
        << [Order_ID |-> "O1", provider_id |-> "P1", bundle_type |-> NoneVal],
           [Order_ID |-> "O3", provider_id |-> "P9", bundle_type |-> NoneVal] >>,
      providers |-> << [PrimaryKey |-> "P1", TIN |-> tin, network |-> "In Network"] >>,
      line_items |-> <<>>,
      ppo |-> PpoRows(tin, P),
      current_otas |-> OtaRows(O),
      dim_proc |-> cats] :
        tin \in {TinP1, TinBad},
        P \in SUBSET RateCodes,
        O \in SUBSET RateCodes,
        cats \in [RateCodes -> {NoRow, NoneVal, "Ancillary", "MRI"}]}

\* claim lines as the resolver reads them, with or without a bundle tag
RateLines ==
    [cpt : RateCodes, modifier : {<<>>}, units : {"1", "3"}]
    \cup [cpt : RateCodes, modifier : {<<>>}, units : {"1", "3"},
          bundle_type : {"EMG Visit"}]

InitRate ==
    /\ pc = "rate_call"
    /\ idx = 0
    /\ \E lines \in SeqsUpTo(RateLines, MaxLines), order_id \in {"O1", "O3"} :
        /\ hcfa_data = [Order_ID |-> order_id, line_items |-> lines]
        /\ m_hcfa_lines = lines
    /\ base_result = [file_name |-> 0, order_id |-> NoneVal]
    /\ modifier_result = Unset
    /\ units_result = Unset
    /\ line_items_result = Unset
    /\ rate_result = Unset
    /\ calls = <<>>
    /\ raised = NoneVal
    /\ results = <<>>
    /\ conn \in RateDBs
    /\ dim_proc = conn.dim_proc
    /\ m_order_lines = <<>>
    /\ m_result = Unset
    /\ files = <<>>
    /\ saved = Unset

\* validators['rate'].validate(hcfa_data['line_items'], order_id)
RateValidate ==
    /\ pc = "rate_call"
    /\ LET r == RateValidator_validate(conn, hcfa_data.line_items, hcfa_data.Order_ID)
       IN /\ hcfa_data' = [hcfa_data EXCEPT !.line_items =
                    RateValidator_lines_after(conn, hcfa_data.line_items, hcfa_data.Order_ID)]
          /\ IF "exception" \in DOMAIN r
                THEN raised' = r.exception /\ UNCHANGED rate_result
                ELSE rate_result' = r /\ UNCHANGED raised
    /\ calls' = Append(calls, "rate")
    /\ pc' = "rate_returned"
    /\ UNCHANGED <<idx, base_result, modifier_result, units_result,
                   line_items_result, results, conn, dim_proc>>
    /\ MatchIdle

NextRate == RateValidate

SpecRate == InitRate /\ [][NextRate]_vars

-----------------------------------------------------------------------------
(* Properties of RateValidator.validate (checked under SpecRate).          *)

RateReturned == pc = "rate_returned"

\* the order has a provider record
ProviderFound ==
    \E i \in 1..Len(conn.orders), j \in 1..Len(conn.providers) :
        /\ conn.orders[i].Order_ID = hcfa_data.Order_ID
        /\ conn.providers[j].PrimaryKey = conn.orders[i].provider_id

\* the lines handed to the resolver
InputLines == m_hcfa_lines

\* the quotes of the returned result
Quotes == rate_result.results

HasQuotes == "results" \in DOMAIN rate_result

\* the line carries a bundle tag
Tagged(line) == "bundle_type" \in DOMAIN line /\ line.bundle_type \notin {NoneVal, ""}

\* the category map gives the line's code the category ancillary
AncillaryLine(line) ==
    /\ conn.dim_proc[line.cpt] \notin {NoRow, NoneVal}
    /\ Lower(conn.dim_proc[line.cpt]) = "ancillary"

\* the negotiated rates for (cleaned provider tax id, code) and the one-time
\* rates for (order id, code), in table order
NegotiatedRates(line) ==
    LET tin == clean_tin(conn.providers[1].TIN)
    IN IF tin = NoneVal THEN <<>>
       ELSE SelectSeq(conn.ppo, LAMBDA r : r.proc_cd = line.cpt /\ r.TIN = tin)
OneTimeRates(line) ==
    SelectSeq(conn.current_otas,
              LAMBDA r : r.CPT = line.cpt /\ r.ID_Order_PrimaryKey = hcfa_data.Order_ID)

\* the line has no rate source at all
Unpriced(line) ==
    /\ ~Tagged(line)
    /\ ~AncillaryLine(line)
    /\ NegotiatedRates(line) = <<>>
    /\ OneTimeRates(line) = <<>>

UnitsOf(line) == IntOfText[line.units]

\* the quote q resolves the line by the first applicable source
ResolvedInOrder(line, q) ==
    /\ q.cpt = line.cpt
    /\ IF Tagged(line) THEN
            /\ q.status = "PASS"
            /\ q.rate_source = "Bundle"
            /\ q.validated_rate = "BUNDLED"
            /\ "base_rate" \notin DOMAIN q
            /\ "unit_adjusted_rate" \notin DOMAIN q
       ELSE IF AncillaryLine(line) THEN
            /\ q.status = "PASS"
            /\ q.rate_source = "Ancillary"
            /\ q.base_rate = 0
            /\ q.unit_adjusted_rate = 0
       ELSE IF NegotiatedRates(line) # <<>> THEN
            /\ q.status = "PASS"
            /\ q.rate_source = "PPO"
            /\ q.base_rate = NegotiatedRates(line)[1].rate
            /\ q.unit_adjusted_rate = q.base_rate * UnitsOf(line)
       ELSE IF OneTimeRates(line) # <<>> THEN
            /\ q.status = "PASS"
            /\ q.rate_source = "OTA"
            /\ q.base_rate = OneTimeRates(line)[1].rate
            /\ q.unit_adjusted_rate = q.base_rate * UnitsOf(line)
       ELSE /\ q.status = "FAIL"
            /\ q.base_rate = NoneVal
            /\ q.unit_adjusted_rate = NoneVal

\* C14: when the provider record is found, every line is resolved by the
\* first applicable source in the order bundle tag (sentinel "BUNDLED", no
\* numeric rate), ancillary category (base and unit-adjusted rate 0),
\* negotiated rate for (cleaned provider tax id, code), one-time rate for
\* (order id, code), both scaled by the units, and otherwise fails with null
\* base and unit-adjusted rates.
C14_FirstApplicableSource ==
    (RateReturned /\ ProviderFound) =>
        /\ HasQuotes
        /\ Len(Quotes) = Len(InputLines)
        /\ \A i \in 1..Len(InputLines) : ResolvedInOrder(InputLines[i], Quotes[i])

\* the same chain on the calls that return a result: the resolver raises
\* only on a line whose stored category is NULL
C14_ChainWhenReturned ==
    (RateReturned /\ ProviderFound) =>
        IF HasQuotes THEN
            /\ Len(Quotes) = Len(InputLines)
            /\ \A i \in 1..Len(InputLines) : ResolvedInOrder(InputLines[i], Quotes[i])
        ELSE /\ raised = "AttributeError"
             /\ \E i \in 1..Len(InputLines) : conn.dim_proc[InputLines[i].cpt] = NoneVal


\* the resolver returned a result with quotes for an order with a provider
Resolved == RateReturned /\ ProviderFound /\ HasQuotes

\* the code is listed in the "Missing rates for" message
ListedMissing(cpt) ==
    \E k \in 1..Len(rate_result.messages) :
        /\ rate_result.messages[k][1] = "Missing rates for"
        /\ cpt \in Range(rate_result.messages[k][2])

RECURSIVE SumPassed(_)
SumPassed(quotes) ==
    IF quotes = <<>> THEN 0
    ELSE SumPassed(SubSeq(quotes, 1, Len(quotes) - 1))
         + (LET q == quotes[Len(quotes)]
            IN IF q.status = "PASS" /\ q.rate_source # "Bundle"
               THEN q.unit_adjusted_rate ELSE 0)

-----------------------------------------------------------------------------
(* UnitsValidator.validate on its own (SpecUnits).                         *)

UnitCodes == {"95886", "95910", "99214", "97110"}

\* contents of dim_proc_df for the codes of the unit checks
UnitDimProcs ==
    {[c \in UnitCodes |->
        CASE c = "95886" -> c1
          [] c = "95910" -> c2
          [] c = "99214" -> c3
          [] c = "97110" -> c4] :
        c1 \in {"Ancillary", "EMG"},
        c2 \in {"EMG", "Ancillary"},
        c3 \in {NoRow, NoneVal, "E&M", "Ancillary", "ancillary"},
        c4 \in {NoRow, "MRI", "Ancillary"}}

UnitLines == [cpt : UnitCodes, modifier : {<<>>}, units : {"1", "3", "5"}]

InitUnits ==
    /\ pc = "units_call"
    /\ idx = 0
    /\ \E lines \in SeqsUpTo(UnitLines, MaxLines) :
        /\ hcfa_data = [Order_ID |-> "O1", line_items |-> lines]
        /\ m_hcfa_lines = lines
    /\ base_result = [file_name |-> 0, order_id |-> NoneVal]
    /\ modifier_result = Unset
    /\ units_result = Unset
    /\ line_items_result = Unset
    /\ rate_result = Unset
    /\ calls = <<>>
    /\ raised = NoneVal
    /\ results = <<>>
    /\ conn = RefDB
    /\ dim_proc \in UnitDimProcs
    /\ m_order_lines = <<>>
    /\ m_result = Unset
    /\ files = <<>>
    /\ saved = Unset

\* validators['units'].validate(hcfa_data)
UnitsValidate ==
    /\ pc = "units_call"
    /\ units_result' = UnitsValidator_validate(dim_proc, hcfa_data)
    /\ calls' = Append(calls, "units")
    /\ pc' = "units_returned"
    /\ UNCHANGED <<idx, hcfa_data, base_result, modifier_result, line_items_result,
                   rate_result, raised, results, conn, dim_proc>>
    /\ MatchIdle

NextUnits == UnitsValidate

SpecUnits == InitUnits /\ [][NextUnits]_vars

-----------------------------------------------------------------------------
(* Properties of UnitsValidator.validate (checked under SpecUnits).        *)

UnitsReturned == pc = "units_returned"

UnitViolations == units_result.details.all_unit_issues

\* the category map gives the code the category ancillary
AncillaryCode(cpt) ==
    dim_proc[cpt] \notin {NoRow, NoneVal} /\ Lower(dim_proc[cpt]) = "ancillary"

\* the unit rule for one line
UnitsAllowed(line) ==
    IF line.cpt \in DOMAIN emg_allowed_units
        THEN UnitsOf(line) <= emg_allowed_units[line.cpt]
        ELSE \/ UnitsOf(line) <= 1
             \/ AncillaryCode(line.cpt)
             \/ line.cpt \in MULTI_UNIT_EXEMPT_CODES

ViolatingLines == SelectSeq(m_hcfa_lines, LAMBDA line : ~UnitsAllowed(line))

C19_ExemptCodesNeverViolate ==
    UnitsReturned =>
        \A k \in 1..Len(UnitViolations) : UnitViolations[k].cpt \notin MULTI_UNIT_EXEMPT_CODES

\* the exemption is honoured for the exempt codes without an EMG allowed-unit
\* entry
C19_ExemptWithoutOverride ==
    UnitsReturned =>
        \A k \in 1..Len(UnitViolations) :
            UnitViolations[k].cpt \notin MULTI_UNIT_EXEMPT_CODES \ DOMAIN emg_allowed_units

-----------------------------------------------------------------------------
(* ModifierValidator.validate on its own (SpecMod).                        *)

\* modifier strings as character sequences; <<>> is None
ModifierTexts ==
    { <<>>,
      <<"2", "6">>,
      <<"t", "c">>,
      <<"T", "c">>,
      <<"L", "T">>,
      <<"2", ",", "6">>,
      <<"L", "T", ",", "2", "6">>,
      <<"l", "t", ",", "T", "C">>,
      <<"C", "T">> }

\* claim lines as the modifier check reads them, with or without the key
ModifierLines ==
    [cpt : {"99214", "73721"}, modifier : ModifierTexts, units : {"1"}]
    \cup [cpt : {"99214", "73721"}, units : {"1"}]

InitMod ==
    /\ pc = "modifier_call"
    /\ idx = 0
    /\ \E lines \in SeqsUpTo(ModifierLines, MaxLines) :
        /\ hcfa_data = [Order_ID |-> "O1", line_items |-> lines]
        /\ m_hcfa_lines = lines
    /\ base_result = [file_name |-> 0, order_id |-> NoneVal]
    /\ modifier_result = Unset
    /\ units_result = Unset
    /\ line_items_result = Unset
    /\ rate_result = Unset
    /\ calls = <<>>
    /\ raised = NoneVal
    /\ results = <<>>
    /\ conn = RefDB
    /\ dim_proc = RefDB.dim_proc
    /\ m_order_lines = <<>>
    /\ m_result = Unset
    /\ files = <<>>
    /\ saved = Unset

\* validators['modifier'].validate(hcfa_data)
ModifierValidate ==
    /\ pc = "modifier_call"
    /\ modifier_result' = ModifierValidator_validate(hcfa_data)
    /\ calls' = Append(calls, "modifier")
    /\ pc' = "modifier_returned"
    /\ UNCHANGED <<idx, hcfa_data, base_result, units_result, line_items_result,
                   rate_result, raised, results, conn, dim_proc>>
    /\ MatchIdle

NextMod == ModifierValidate

SpecMod == InitMod /\ [][NextMod]_vars

-----------------------------------------------------------------------------
(* Properties of ModifierValidator.validate (checked under SpecMod).       *)

ModifierReturned == pc = "modifier_returned"

\* the line's modifier string holds 26 or, in any letter case, TC
Offends(line) ==
    /\ "modifier" \in DOMAIN line
    /\ \E i \in 1..(Len(line.modifier) - 1) :
        \/ line.modifier[i] = "2" /\ line.modifier[i + 1] = "6"
        \/ line.modifier[i] \in {"t", "T"} /\ line.modifier[i + 1] \in {"c", "C"}

OffendingLines == SelectSeq(m_hcfa_lines, Offends)

\* C20: the modifier validator returns Pass iff no line's modifier string
\* holds 26 or TC as a substring, letter case ignored; on Fail it lists the
\* code and the modifier as written of each offending line, once per line in
\* line order, and of no other line; a line without modifier never offends;
\* the lines handed in are left as they were.
C20_ModifierPassIffNoneDisallowed ==
    ModifierReturned =>
        /\ modifier_result.status = (IF OffendingLines = <<>> THEN "PASS" ELSE "FAIL")
        /\ Len(modifier_result.invalid_modifiers) = Len(OffendingLines)
        /\ \A k \in 1..Len(OffendingLines) :
            /\ modifier_result.invalid_modifiers[k].cpt = OffendingLines[k].cpt
            /\ modifier_result.invalid_modifiers[k].modifier = OffendingLines[k].modifier
        /\ hcfa_data.line_items = m_hcfa_lines

\* a line without modifier key next to a line with the lower-case modifier
\* "tc"
C20_Witness ==
    /\ ModifierReturned
    /\ Len(m_hcfa_lines) = 2
    /\ "modifier" \notin DOMAIN m_hcfa_lines[1]
    /\ "modifier" \in DOMAIN m_hcfa_lines[2]
    /\ m_hcfa_lines[2].modifier = <<"t", "c">>
    /\ modifier_result.status = "FAIL"
    /\ Len(modifier_result.invalid_modifiers) = 1
    /\ modifier_result.invalid_modifiers[1].modifier = <<"t", "c">>


-----------------------------------------------------------------------------
(* SpecBatch: run() over a directory of three files, the first and the     *)
(* last holding the same claim.                                            *)

\* the claims run() may meet between the two copies: one service line on
\* order O1, units left out
BatchOthers ==
    {f \in RawFiles : /\ "service_lines" \in DOMAIN f
                      /\ f.Order_ID = "O1"
                      /\ Len(f.service_lines) = 1
                      /\ "units" \notin DOMAIN f.service_lines[1]}

InitBatch ==
    /\ pc = "run_start"
    /\ idx = 0
    /\ hcfa_data = [Order_ID |-> NoneVal, line_items |-> <<>>]
    /\ base_result = [file_name |-> 0, order_id |-> NoneVal]
    /\ modifier_result = Unset
    /\ units_result = Unset
    /\ line_items_result = Unset
    /\ rate_result = Unset
    /\ calls = <<>>
    /\ raised = NoneVal
    /\ results = <<>>
    /\ conn = RefDB
    /\ dim_proc = [c \in {} |-> NoRow]
    /\ m_hcfa_lines = <<>>
    /\ m_order_lines = <<>>
    /\ m_result = Unset
    /\ \E claim \in RawFiles \cup {BadJson} :
        \E other \in BatchOthers \cup {claim} :
            files = <<claim, other, claim>>
    /\ saved = Unset

NextBatch ==
    \/ RunStart
    \/ ProcessFileStart
    \/ Load
    \/ ModifierStage
    \/ UnitsStage
    \/ BundleStage
    \/ LineItemsStage
    \/ RateStage
    \/ Finish

SpecBatch == InitBatch /\ [][NextBatch]_vars

-----------------------------------------------------------------------------
(* Properties of repeated and reordered runs (checked under SpecBatch).    *)

\* two verdicts agree on status, stage, order id, details (per-line results
\* and total_rate included) and messages
SameVerdict(a, b) ==
    /\ a.status = b.status
    /\ a.validation_type = b.validation_type
    /\ a.order_id = b.order_id
    /\ a.details = b.details
    /\ a.messages = b.messages

\* the verdict reports a database fault, which is no part of the snapshot
DatabaseFault(v) ==
    /\ v.validation_type = "process_error"
    /\ v.details.error = "DatabaseError"

\* the validators and the reference data are what run() started from
SnapshotIntact ==
    /\ conn = RefDB
    /\ pc # "run_start" => dim_proc = RefDB.dim_proc

\* C21: when the same claim is run twice in a row against the same reference
\* snapshot, the two verdicts agree on status, stage, per-line results,
\* total_rate and details, and after the first run the validators' state, the
\* reference data and the claim file are what they were before it.
C21_SecondRunSameVerdict ==
    files[1] = files[2] =>
        /\ SnapshotIntact
        /\ files[1] = files[3]
        /\ (Len(results) >= 2 /\ ~DatabaseFault(results[1]) /\ ~DatabaseFault(results[2]))
                => SameVerdict(results[1], results[2])

\* a two-line claim went through every stage twice and was priced both times
C21_Witness ==
    /\ files[1] = files[2]
    /\ "service_lines" \in DOMAIN files[1]
    /\ Len(files[1].service_lines) = 2
    /\ Len(results) >= 2
    /\ results[1].status = "PASS"
    /\ results[2].status = "PASS"
    /\ results[2].details.total_rate > 0


-----------------------------------------------------------------------------
(* Properties of the claim's lines across RateValidator.validate (SpecRate) *)

\* C23: no stage modifies the claim's service lines: after a call of the Rate
\* Resolver every line of the list it was given has exactly the fields and
\* values it had before the call, bundle-tagged lines included.
C23_LinesUnchangedByResolver ==
    RateReturned => hcfa_data.line_items = InputLines

\* the lines without a bundle tag are left as they were, and a tagged line
\* differs at most in validated_rate
C23_OnlyTaggedLinesWritten ==
    RateReturned =>
        /\ Len(hcfa_data.line_items) = Len(InputLines)
        /\ \A i \in 1..Len(InputLines) :
            LET before == InputLines[i]
                after == hcfa_data.line_items[i]
            IN /\ ~Tagged(before) => after = before
               /\ \A k \in DOMAIN before : k # "validated_rate" => after[k] = before[k]


-----------------------------------------------------------------------------
(* SpecNorm: normalize_hcfa_format on bounded claim documents, followed by *)
(* RateValidator.validate on the normalized lines.                         *)

\* the values a document may give for units: an integer, zero, a fraction,
\* text that is no number, null
NormUnits == {"1", "3", "0", "2.5", "abc", NoneVal}

NormRawLines ==
    [cpt_code : {"99214", "99070"}, modifiers : {<<>>}]
    \cup [cpt_code : {"99214", "99070"}, modifiers : {<<>>}, units : NormUnits]

NormFiles == [Order_ID : {"O1"}, service_lines : SeqsUpTo(NormRawLines, MaxLines)]

\* order O1 of a provider with a negotiated rate for 99214; 99070 is ancillary
NormDB ==
    [orders |-> << [Order_ID |-> "O1", provider_id |-> "P1", bundle_type |-> NoneVal] >>,
     providers |-> << [PrimaryKey |-> "P1", TIN |-> TinP1, network |-> "In Network"] >>,
     line_items |-> <<>>,
     ppo |-> << [TIN |-> clean_tin(TinP1), proc_cd |-> "99214", rate |-> 100] >>,
     current_otas |-> <<>>,
     dim_proc |-> [c \in {"99214", "99070"} |->
                    IF c = "99070" THEN "Ancillary" ELSE "E&M"]]

InitNorm ==
    /\ pc = "normalize_call"
    /\ idx = 0
    /\ hcfa_data = [Order_ID |-> NoneVal, line_items |-> <<>>]
    /\ base_result = [file_name |-> 0, order_id |-> NoneVal]
    /\ modifier_result = Unset
    /\ units_result = Unset
    /\ line_items_result = Unset
    /\ rate_result = Unset
    /\ calls = <<>>
    /\ raised = NoneVal
    /\ results = <<>>
    /\ conn = NormDB
    /\ dim_proc = conn.dim_proc
    /\ m_hcfa_lines = <<>>
    /\ m_order_lines = <<>>
    /\ m_result = Unset
    /\ \E raw \in NormFiles : files = <<raw>>
    /\ saved = Unset

\* hcfa_data = normalize_hcfa_format(raw_hcfa_data); its line_items are what
\* the validators are handed
Normalize ==
    /\ pc = "normalize_call"
    /\ IF NormalizeRaises(files[1]) THEN
            /\ raised' = "IndexError"
            /\ pc' = "normalize_raised"
            /\ UNCHANGED <<hcfa_data, m_hcfa_lines>>
       ELSE /\ hcfa_data' = normalize_hcfa_format(files[1])
            /\ m_hcfa_lines' = normalize_hcfa_format(files[1]).line_items
            /\ pc' = "rate_call"
            /\ UNCHANGED raised
    /\ UNCHANGED <<idx, base_result, modifier_result, units_result, line_items_result,
                   rate_result, calls, results, conn, dim_proc, m_order_lines,
                   m_result, files, saved>>

NextNorm ==
    \/ Normalize
    \/ RateValidate

SpecNorm == InitNorm /\ [][NextNorm]_vars

-----------------------------------------------------------------------------
(* Properties of the normalized units (checked under SpecNorm).            *)

Normalized == pc \in {"rate_call", "rate_returned"}

\* the units values that are integers of at least 1
PositiveIntegers == {t \in DOMAIN IntOfText : t # "2.5" /\ IntOfText[t] >= 1}

\* C24: after normalization every service line's units is an integer of at
\* least 1, and the units value the Rate Resolver scales by is never 0 or
\* negative.
C24_UnitsAtLeastOne ==
    /\ Normalized =>
        \A i \in 1..Len(hcfa_data.line_items) :
            hcfa_data.line_items[i].units \in PositiveIntegers
    /\ (RateReturned /\ HasQuotes) =>
        \A i \in 1..Len(Quotes) : Quotes[i].units >= 1

\* units left out of the document are 1 after normalization, and every units
\* value the document gives is passed on as written
C24_DefaultOnlyWhenAbsent ==
    Normalized =>
        \A i \in 1..Len(hcfa_data.line_items) :
            LET raw == files[1].service_lines[i]
            IN hcfa_data.line_items[i].units =
                    (IF "units" \in DOMAIN raw THEN raw.units ELSE "1")


-----------------------------------------------------------------------------
(* Properties of the logged failures (checked under Spec).                 *)

\* C25: every Fail verdict the pipeline logs, at whatever stage, carries a
\* populated (non-empty) details payload.
C25_FailureDetailsPopulated ==
    \A k \in 1..Len(results) :
        results[k].status = "FAIL" => DOMAIN results[k].details # {}

\* the failures logged by every stage but the bundle check carry details
C25_DetailsEmptyOnlyAtBundleCheck ==
    \A k \in 1..Len(results) :
        (results[k].status = "FAIL" /\ results[k].validation_type # "bundle_check")
            => DOMAIN results[k].details # {}


-----------------------------------------------------------------------------
(* SpecPerm: RateValidator.validate on a list of lines and on a permutation *)
(* of the same list, same order id and reference data.                      *)

PermCodes == {"99214", "99070"}

\* order O1 of a provider with a negotiated rate for 99214 that fills the
\* significand of a float; 99070 is ancillary, priced small, or unpriced
PermDBs ==
    {[orders |-> << [Order_ID |-> "O1", provider_id |-> "P1", bundle_type |-> NoneVal] >>,
      providers |-> << [PrimaryKey |-> "P1", TIN |-> TinP1, network |-> "In Network"] >>,
      line_items |-> <<>>,
      ppo |-> << [TIN |-> clean_tin(TinP1), proc_cd |-> "99214", rate |-> 2^FloatBits] >>,
      current_otas |-> ota,
      dim_proc |-> [c \in PermCodes |-> IF c = "99070" THEN cat ELSE "E&M"]] :
        ota \in {<<>>, << [ID_Order_PrimaryKey |-> "O1", CPT |-> "99070", rate |-> 1] >>},
        cat \in {"MRI", "Ancillary"}}

PermLines == [cpt : PermCodes, modifier : {<<>>}, units : {"1", "3"}]

\* the ways to reorder a list of n lines
Orderings(n) == {p \in [1..n -> 1..n] : \A i, j \in 1..n : p[i] = p[j] => i = j}

InitPerm ==
    /\ pc = "rate_call"
    /\ idx = 0
    /\ \E lines \in SeqsUpTo(PermLines, MaxLines + 1) :
        /\ hcfa_data = [Order_ID |-> "O1", line_items |-> lines]
        /\ m_hcfa_lines = lines
    /\ base_result = [file_name |-> 0, order_id |-> NoneVal]
    /\ modifier_result = Unset
    /\ units_result = Unset
    /\ line_items_result = Unset
    /\ rate_result = Unset
    /\ calls = <<>>
    /\ raised = NoneVal
    /\ results = <<>>
    /\ conn \in PermDBs
    /\ dim_proc = conn.dim_proc
    /\ m_order_lines = <<>>
    /\ m_result = Unset
    /\ files = <<>>
    /\ saved = Unset

\* validators['rate'].validate(permuted, order_id), the lines in another order
PermutedValidate ==
    /\ pc = "rate_returned"
    /\ \E p \in Orderings(Len(m_hcfa_lines)) :
        LET permuted == [i \in 1..Len(m_hcfa_lines) |-> m_hcfa_lines[p[i]]]
        IN /\ hcfa_data' = [hcfa_data EXCEPT !.line_items =
                    RateValidator_lines_after(conn, permuted, hcfa_data.Order_ID)]
           /\ m_result' = RateValidator_validate(conn, permuted, hcfa_data.Order_ID)
    /\ calls' = Append(calls, "rate")
    /\ pc' = "permuted_returned"
    /\ UNCHANGED <<idx, base_result, modifier_result, units_result, line_items_result,
                   rate_result, raised, results, conn, dim_proc, m_hcfa_lines,
                   m_order_lines, files, saved>>

NextPerm ==
    \/ RateValidate
    \/ PermutedValidate

SpecPerm == InitPerm /\ [][NextPerm]_vars

-----------------------------------------------------------------------------
(* Properties of the resolver under permutation (checked under SpecPerm).  *)

PermutedReturned == pc = "permuted_returned"

\* C26: for every list of line items and every permutation of it, with the
\* same order id and reference data, the Rate Resolver returns the same
\* total_rate and the same overall status.
C26_TotalInvariantUnderPermutation ==
    PermutedReturned =>
        /\ m_result.total_rate = rate_result.total_rate
        /\ m_result.status = rate_result.status

\* the overall status and the quotes, as a collection, do not depend on the
\* order of the lines
C26_StatusInvariantUnderPermutation ==
    PermutedReturned =>
        /\ m_result.status = rate_result.status
        /\ Len(m_result.results) = Len(rate_result.results)
        /\ \A q \in Range(rate_result.results) :
            Cardinality({i \in 1..Len(m_result.results) : m_result.results[i] = q})
                = Cardinality({i \in 1..Len(rate_result.results) : rate_result.results[i] = q})

\* with at most two priced lines the total does not depend on their order
C26_TotalOfTwoInvariant ==
    (PermutedReturned /\ Len(m_hcfa_lines) <= 2) =>
        m_result.total_rate = rate_result.total_rate


-----------------------------------------------------------------------------
(* Properties of the lookups at the head of process_file (under Spec).     *)

\* the orders table has a row for the order id
OrderRecordExists(order_id) ==
    \E i \in 1..Len(conn.orders) : conn.orders[i].Order_ID = order_id

\* the order's provider_id names a row of the providers table
ProviderRecordExists(order_id) ==
    \E i \in 1..Len(conn.orders), j \in 1..Len(conn.providers) :
        /\ conn.orders[i].Order_ID = order_id
        /\ conn.providers[j].PrimaryKey = conn.orders[i].provider_id

\* process_file is past json.load, normalization and the lookups
PastLookups == idx >= 1 /\ pc # "load"

\* C27: the provider and order lookups come before the modifier stage: when
\* the claim's order id has no order record the file ends in Fail
\* process_error and no validator has run, whatever the claim's modifiers and
\* units; when the order exists but its provider record does not, the run
\* enters the stages and the missing provider shows only as the rate stage's
\* Fail.
C27_LookupsBeforeStages ==
    /\ (PastLookups /\ ~OrderRecordExists(hcfa_data.Order_ID)) =>
            /\ EndedWith("FAIL", "process_error")
            /\ calls = <<>>
            /\ modifier_result = Unset /\ units_result = Unset
            /\ line_items_result = Unset /\ rate_result = Unset
    /\ (PastLookups /\ OrderRecordExists(hcfa_data.Order_ID)
                    /\ ~ProviderRecordExists(hcfa_data.Order_ID)) =>
            /\ pc = "modifier" \/ Called("modifier")
            /\ (FileEnded /\ LastVerdict.validation_type = "process_error")
                    => LastVerdict.details.error = "DatabaseError"
            /\ (Called("rate") /\ raised = NoneVal) =>
                    /\ EndedWith("FAIL", "rate")
                    /\ rate_result.reason = "Provider details not found"
    /\ \A k \in 1..Len(results) :
            ("reason" \in DOMAIN results[k].details
                /\ results[k].details.reason = "Provider details not found")
            => results[k].validation_type = "rate"

\* a claim with a disallowed modifier and three units on an order id without
\* order record ended in process_error before any validator ran
C27_Witness ==
    /\ FileEnded
    /\ hcfa_data.Order_ID = "O9"
    /\ Len(hcfa_data.line_items) = 1
    /\ hcfa_data.line_items[1].modifier = <<"t", "c">>
    /\ hcfa_data.line_items[1].units = "3"
    /\ LastVerdict.validation_type = "process_error"
    /\ LastVerdict.details.error = "KeyError"
    /\ calls = <<>>


-----------------------------------------------------------------------------
(* Properties of the lines that reach the rate stage (under Spec).         *)

\* the rate stage has found the provider and returned a quote per line
RateQuoted == Called("rate") /\ "provider_details" \in DOMAIN rate_result

\* C28: in a full pipeline run the claim's lines have the normalizer's four
\* fields and no bundle tag, so no quote has source Bundle: every line that
\* reaches the Rate Resolver, the lines of an accepted EMG package included,
\* is priced from the ancillary, negotiated or one-time source or fails the
\* claim, and the rate result is the one the resolver gives for the lines
\* whatever accepting outcome the matcher returned.
C28_NoBundleSourceInPipeline ==
    /\ \A i \in 1..Len(hcfa_data.line_items) :
            DOMAIN hcfa_data.line_items[i] = {"cpt", "modifier", "units", "charge"}
    /\ RateQuoted =>
            /\ Len(rate_result.results) = Len(hcfa_data.line_items)
            /\ \A i \in 1..Len(rate_result.results) :
                LET q == rate_result.results[i]
                IN /\ q.rate_source \in {"Ancillary", "PPO", "OTA", NoneVal}
                   /\ q.rate_source = NoneVal <=> q.status = "FAIL"
                   /\ q.status = "FAIL" => EndedWith("FAIL", "rate")
            /\ rate_result = RateValidator_validate(conn, hcfa_data.line_items,
                                                    hcfa_data.Order_ID)
    /\ \A k \in 1..Len(results) :
            "results" \in DOMAIN results[k].details =>
                \A i \in 1..Len(results[k].details.results) :
                    results[k].details.results[i].rate_source # "Bundle"

\* the matcher accepted the claim as an EMG package and its line was priced
\* from a one-time agreement
C28_Witness ==
    /\ RateQuoted
    /\ line_items_result.match_type = "emg_package_match"
    /\ Len(rate_result.results) = 1
    /\ rate_result.results[1].rate_source = "OTA"
    /\ EndedWith("PASS", "final")


-----------------------------------------------------------------------------
(* SpecLog: JSONValidationLogger fed with verdicts by log_validation, then *)
(* saved.                                                                  *)

\* the verdicts a caller may log: for one of two files, a pass or a failure
\* of some stage
LogVerdicts ==
    {ValidationResult([file_name |-> f, order_id |-> "O1"], "PASS", "final",
                      [results |-> <<>>], <<"Line item and rate validation passed">>) :
        f \in 1..2}
    \cup
    {ValidationResult([file_name |-> f, order_id |-> "O1"], "FAIL", t, <<>>, <<>>) :
        f \in 1..2, t \in {"bundle_check", "rate", "process_error"}}

InitLog ==
    /\ pc = "logging"
    /\ idx = 0
    /\ hcfa_data = [Order_ID |-> NoneVal, line_items |-> <<>>]
    /\ base_result = [file_name |-> 0, order_id |-> NoneVal]
    /\ modifier_result = Unset
    /\ units_result = Unset
    /\ line_items_result = Unset
    /\ rate_result = Unset
    /\ calls = <<>>
    /\ raised = NoneVal
    /\ results = <<>>
    /\ conn = RefDB
    /\ dim_proc = conn.dim_proc
    /\ m_hcfa_lines = <<>>
    /\ m_order_lines = <<>>
    /\ m_result = Unset
    /\ files = <<>>
    /\ saved = Unset

\* logger.log_validation(result)
LogValidation ==
    /\ pc = "logging"
    /\ Len(results) < MaxLogged
    /\ \E result \in LogVerdicts : results' = log_validation(results, result)
    /\ UNCHANGED <<pc, idx, hcfa_data, base_result, modifier_result, units_result,
                   line_items_result, rate_result, calls, raised, conn, dim_proc>>
    /\ MatchIdle

\* logger.save()
Save ==
    /\ pc = "logging"
    /\ saved' = save(results)
    /\ pc' = "saved"
    /\ UNCHANGED <<idx, hcfa_data, base_result, modifier_result, units_result,
                   line_items_result, rate_result, calls, raised, results, conn,
                   dim_proc, m_hcfa_lines, m_order_lines, m_result, files>>

NextLog ==
    \/ LogValidation
    \/ Save

SpecLog == InitLog /\ [][NextLog]_vars

-----------------------------------------------------------------------------
(* Properties of the saved buckets (checked under SpecLog).                *)

Saved == pc = "saved"

\* the number of entries of a bucket written for a file name
EntriesFor(bucket, f) == Cardinality({i \in 1..Len(bucket) : bucket[i].file_name = f})

\* the verdicts logged for a file name
LoggedFor(f) == {k \in 1..Len(results) : results[k].file_name = f}

\* every verdict logged for the file name has status PASS
AllPassFor(f) == \A k \in LoggedFor(f) : results[k].status = "PASS"

\* C29: save places every logged verdict in exactly one of the pass bucket
\* and the failure bucket; a verdict is in the pass bucket iff its status is
\* PASS and every verdict logged for the same file name has status PASS, so
\* a Fail verdict is never recorded as a pass; and the summary has
\* total_files = passed_files + failed_files = the number of logged verdicts.
C29_EveryVerdictInOneBucket ==
    Saved =>
        /\ \A f \in {results[k].file_name : k \in 1..Len(results)} :
            /\ EntriesFor(saved.passes, f) =
                    (IF AllPassFor(f) THEN Cardinality(LoggedFor(f)) ELSE 0)
            /\ EntriesFor(saved.failures, f) =
                    (IF AllPassFor(f) THEN 0 ELSE Cardinality(LoggedFor(f)))
        /\ \A i \in 1..Len(saved.passes) : saved.passes[i].status = "PASS"
        /\ \A i \in 1..Len(saved.failures) : saved.failures[i].status = "FAIL"
        /\ saved.summary.passed_files = Len(saved.passes)
        /\ saved.summary.failed_files = Len(saved.failures)
        /\ saved.summary.total_files =
                saved.summary.passed_files + saved.summary.failed_files
        /\ saved.summary.total_files = Len(results)

\* a file with a Pass and a Fail verdict went to the failure bucket with both
\* verdicts while another file's Pass verdict went to the pass bucket
C29_Witness ==
    /\ Saved
    /\ Len(results) = 3
    /\ results[1].file_name = 1 /\ results[1].status = "PASS"
    /\ results[2].file_name = 1 /\ results[2].status = "FAIL"
    /\ results[3].file_name = 2 /\ results[3].status = "PASS"
    /\ Len(saved.failures) = 2
    /\ Len(saved.passes) = 1


-----------------------------------------------------------------------------
(* Properties of a provider whose tax id cannot be cleaned (SpecRate).     *)

\* the tax id of the order's provider, dashes and surrounding blanks removed
ProviderTaxId == StripChars(SelectSeq(conn.providers[1].TIN, LAMBDA ch : ch # "-"))

\* the provider's tax id does not clean to exactly nine digits
TaxIdUncleanable ==
    \/ Len(ProviderTaxId) # 9
    \/ \E i \in 1..Len(ProviderTaxId) : ProviderTaxId[i] \notin Digits

\* the ppo table holds a row for the raw tax id and the line's code
RawTaxIdRow(line) ==
    \E i \in 1..Len(conn.ppo) :
        conn.ppo[i].TIN = ProviderTaxId /\ conn.ppo[i].proc_cd = line.cpt

\* C30: when the provider's tax id does not clean to nine digits, no line is
\* priced from the negotiated-rate table, even when that table holds a row for
\* the raw tax id and the code: every line that is neither bundle-tagged nor
\* ancillary is priced from the one-time agreement of the order or fails.
C30_NoNegotiatedRateWithoutCleanTaxId ==
    (RateReturned /\ HasQuotes /\ ProviderFound /\ TaxIdUncleanable) =>
        \A i \in 1..Len(Quotes) :
            LET line == InputLines[i]
                q == Quotes[i]
            IN /\ q.rate_source # "PPO"
               /\ (~Tagged(line) /\ ~AncillaryLine(line)) =>
                    IF OneTimeRates(line) # <<>>
                        THEN /\ q.status = "PASS"
                             /\ q.rate_source = "OTA"
                             /\ q.base_rate = OneTimeRates(line)[1].rate
                        ELSE /\ q.status = "FAIL"
                             /\ rate_result.status = "FAIL"

\* the ppo table has rows under the eight-digit tax id for both codes; one
\* line is priced from the one-time agreement and the other fails
C30_Witness ==
    /\ RateReturned /\ HasQuotes /\ ProviderFound /\ TaxIdUncleanable
    /\ Len(Quotes) = 2
    /\ RawTaxIdRow(InputLines[1]) /\ RawTaxIdRow(InputLines[2])
    /\ Quotes[1].rate_source = "OTA"
    /\ Quotes[2].status = "FAIL"

=============================================================================
